---------------------------- MODULE Spec2Model ----------------------------
(***************************************************************************)
(* A model of the text-to-speech pipeline of readtomyshoe's server:        *)
(*   - the chunker of server/src/tts.rs (split_at_multi,                   *)
(*     break_greedily_at_delim, break_greedily_at_delims,                  *)
(*     break_english_text), as operators on byte sequences;                *)
(*   - the dispatcher of server/src/tts.rs (tts, join_parallel,            *)
(*     tts_single), as a state machine over the spawned tasks;             *)
(*   - the storage path of server/src/add_article.rs (add_article_by_text, *)
(*     tts_to_file, the endpoint) against the directory listing of         *)
(*     server/src/list_articles.rs (get_library_catalog).                  *)
(*                                                                         *)
(* A text is a sequence of one-byte characters; byte index i of the Rust   *)
(* &str is element i+1 of the sequence.  The delimiters are ASCII, so a    *)
(* split is always on a character boundary and a multi-byte character      *)
(* behaves like a run of non-delimiter bytes.                              *)
(***************************************************************************)
EXTENDS Integers, Sequences, FiniteSets, TLC

VARIABLES
    \* ---- chunker (SpecChunker) and dispatcher (SpecTts)
    text,            \* the text handed to break_english_text / tts
    max_chunk_size,  \* the ceiling handed to break_english_text
    cpc,             \* chunker run: "start" | "done"
    chunk_result,    \* Result<Vec<&str>, Error> of break_english_text
    \* ---- dispatcher (SpecTts)
    tpc,             \* tts: "start" | "joining" (in join_all) | "returned"
    tasks,           \* per chunk, the spawned task running tts_single:
                     \*   "spawned" | "inflight" | "ok" | "err"
    blobs,           \* per chunk, the Bytes its task returned (<<>> before)
    completion,      \* the chunk indices in the order their tasks finished
    net_calls,       \* number of requests sent to the TTS API
    tts_result,      \* Result<Bytes, Error> of tts
    \* ---- submissions, the audio directory and its listing (Spec)
    subs,            \* per submission, where its handler stands and what it holds
    files,           \* the audio directory: path -> file, or Absent
    tokens,          \* characters the rate limiter can still admit
    lpc,             \* get_library_catalog: "idle" | "listing" | "panicked"
    visited,         \* the directory entries the running listing has yielded
    catalog,         \* the entries the running (or last) listing collected
    cache,           \* LibraryCache: path -> metadata, or NotCached
    \* ---- the rate limiter under a clock (SpecLimiter)
    max_chars_per_min, \* Opt::max_chars_per_min, the quota the limiter is built with
    now,             \* time since the limiter was built, in replenish intervals
    admitted,        \* the charges the limiter has admitted, each with its time
    \* ---- the cache's lock (SpecListing)
    poisoned,        \* the Mutex of LibraryCache is poisoned
    \* ---- a call of a function of util.rs or list_articles.rs (SpecId,
    \*      SpecTruncate, SpecSort)
    input,           \* the arguments of the call
    output,          \* what the call returned
    \* ---- the frontend's components and their storage (SpecFrontend)
    queue,           \* Queue: its entries, and the future that restores them
    player,          \* Player: now_playing, the save timers, the futures it spawned
    library,         \* Library: download_progresses, and the fetches under way
    audio,           \* the AudioMsg the last event sent to the Audio component
    idb              \* IndexedDB: the saved queue, the saved player state

chunkerVars == <<text, max_chunk_size, cpc, chunk_result>>

ttsVars == <<tpc, tasks, blobs, completion, net_calls, tts_result>>

clockVars == <<max_chars_per_min, now, admitted>>

pureVars == <<input, output>>

frontendVars == <<queue, player, library, audio, idb>>

storeVars == <<subs, files, tokens, lpc, visited, catalog, cache, clockVars,
               poisoned, pureVars, frontendVars>>

serverVars == <<chunkerVars, ttsVars, subs, files, tokens, lpc, visited,
                catalog, cache, clockVars, poisoned, pureVars>>

vars == <<text, max_chunk_size, cpc, chunk_result,
          tpc, tasks, blobs, completion, net_calls, tts_result,
          subs, files, tokens, lpc, visited, catalog, cache,
          max_chars_per_min, now, admitted, poisoned, input, output,
          queue, player, library, audio, idb>>

----------------------------------------------------------------------------
(* Bounds of the model. *)

\* Longest text the chunker specification enumerates.
MaxLen == 6

\* Largest ceiling the chunker specification enumerates (the smallest is 1).
MaxChunkSize == 5

\* The ceiling handed to break_english_text by tts.  The program's is
\* MAX_CHARS_PER_REQUEST (5000); the model runs tts under this small one, so
\* that texts of a dozen bytes break into several chunks or fail to break.
TtsCeiling == 4

\* Longest audio blob a TTS response carries in the model.
MaxBlobLen == 2

\* The limiter's quota: Opt::max_chars_per_min, 5,000,000 by default, here a
\* few characters so that two of the model's articles can exceed it.
MaxCharsPerMin == 12

\* SpecId: the longest title and the longest body of an article.
MaxTitleLen == 2

MaxBodyLen == 2

\* SpecTruncate: the longest string, in characters, and the largest max_len
\* (the smallest is 4).
MaxStringLen == 3

MaxTruncLen == 6

\* SpecLimiter: the largest quota the limiter is built with, how long the
\* clock runs (in replenish intervals) and how many charges are admitted.
MaxQuota == 3

MaxTicks == 5

MaxAdmitted == 3

\* SpecSort: the longest catalog sorted and the latest timestamp.
MaxCatalogLen == 4

MaxTime == 2

----------------------------------------------------------------------------
(* The chunker: server/src/tts.rs, lines 141-251. *)

\* Option<usize>::None of last_candidate_break.
None == -1

\* The four delimiters of break_english_text, in decreasing preference.
EnglishDelims == <<"\n", ":", ".", ",">>

\* The bytes of the model's texts: the delimiters and one other byte.
Chars == {"\n", ":", ".", ",", "a"}

\* text.match_indices(delim).map(|(i, _)| i): the 0-based byte indices of delim.
RECURSIVE MatchIndices(_, _, _)
MatchIndices(t, delim, i) ==
    IF i >= Len(t) THEN <<>>
    ELSE IF t[i + 1] = delim THEN <<i>> \o MatchIndices(t, delim, i + 1)
    ELSE MatchIndices(t, delim, i + 1)

\* The loop of split_at_multi: (slice, rest) = text.split_at(idx - last_idx).
RECURSIVE SplitLoop(_, _, _, _, _)
SplitLoop(rest, indices, k, last_idx, slices) ==
    IF k > Len(indices) THEN Append(slices, rest)
    ELSE LET at == indices[k] - last_idx
         IN  SplitLoop(SubSeq(rest, at + 1, Len(rest)), indices, k + 1,
                       indices[k], Append(slices, SubSeq(rest, 1, at)))

\* The loop of split_at_multi with the commented-out `text = &rest[1..]` of
\* line 156 put back: the delimiter that starts every later slice is stripped.
RECURSIVE SplitLoopStrip(_, _, _, _, _)
SplitLoopStrip(rest, indices, k, last_idx, slices) ==
    IF k > Len(indices) THEN Append(slices, rest)
    ELSE LET at == indices[k] - last_idx
         IN  SplitLoopStrip(SubSeq(rest, at + 2, Len(rest)), indices, k + 1,
                            indices[k] + 1, Append(slices, SubSeq(rest, 1, at)))

split_at_multi_strip(t, indices) == SplitLoopStrip(t, indices, 1, 0, <<>>)

split_at_multi(t, indices) == SplitLoop(t, indices, 1, 0, <<>>)

\* The for loop of break_greedily_at_delim over delim_indices.chain(once(eof)):
\* cb are the candidate breaks, k the position in them, breaks the Vec of
\* chosen breaks, cand is last_candidate_break.
RECURSIVE BreakLoop(_, _, _, _, _, _)
BreakLoop(cb, k, breaks, cand, max, eof) ==
    IF k > Len(cb) THEN breaks
    ELSE LET cur_break == cb[k]
             last_break == IF breaks = <<>> THEN 0 ELSE breaks[Len(breaks)]
         IN  IF cur_break - last_break <= max
             THEN BreakLoop(cb, k + 1, breaks, cur_break, max, eof)
             ELSE IF cand # None
             THEN BreakLoop(cb, k + 1, Append(breaks, cand), cur_break, max, eof)
             ELSE IF cur_break # eof
             THEN BreakLoop(cb, k + 1, Append(breaks, cur_break), None, max, eof)
             ELSE BreakLoop(cb, k + 1, breaks, cand, max, eof)

\* The same loop with the size test of line 183 turned round (>= for <=).
RECURSIVE BreakLoopFlipped(_, _, _, _, _, _)
BreakLoopFlipped(cb, k, breaks, cand, max, eof) ==
    IF k > Len(cb) THEN breaks
    ELSE LET cur_break == cb[k]
             last_break == IF breaks = <<>> THEN 0 ELSE breaks[Len(breaks)]
         IN  IF cur_break - last_break >= max
             THEN BreakLoopFlipped(cb, k + 1, breaks, cur_break, max, eof)
             ELSE IF cand # None
             THEN BreakLoopFlipped(cb, k + 1, Append(breaks, cand), cur_break, max, eof)
             ELSE IF cur_break # eof
             THEN BreakLoopFlipped(cb, k + 1, Append(breaks, cur_break), None, max, eof)
             ELSE BreakLoopFlipped(cb, k + 1, breaks, cand, max, eof)

break_greedily_at_delim_flipped(t, delim, max) ==
    LET eof == Len(t)
        cb  == Append(MatchIndices(t, delim, 0), eof)
    IN  split_at_multi(t, BreakLoopFlipped(cb, 1, <<>>, None, max, eof))

\* A break at every delimiter: nothing is accumulated.
break_at_every_delim(t, delim, max) ==
    split_at_multi(t, MatchIndices(t, delim, 0))

break_greedily_at_delim(t, delim, max) ==
    LET eof == Len(t)
        cb  == Append(MatchIndices(t, delim, 0), eof)
    IN  split_at_multi(t, BreakLoop(cb, 1, <<>>, None, max, eof))

\* The flat_map with every chunk broken at every delimiter it holds, whatever
\* its size.
RECURSIVE FlatMapBreakEvery(_, _, _, _)
FlatMapBreakEvery(chunks, k, delim, max) ==
    IF k > Len(chunks) THEN <<>>
    ELSE split_at_multi(chunks[k], MatchIndices(chunks[k], delim, 0))
         \o FlatMapBreakEvery(chunks, k + 1, delim, max)

\* chunks.into_iter().flat_map(...).collect() of lines 225-234 for one delim.
RECURSIVE FlatMapBreak(_, _, _, _)
FlatMapBreak(chunks, k, delim, max) ==
    IF k > Len(chunks) THEN <<>>
    ELSE (IF Len(chunks[k]) > max
          THEN break_greedily_at_delim(chunks[k], delim, max)
          ELSE <<chunks[k]>>)
         \o FlatMapBreak(chunks, k + 1, delim, max)

\* The for loop of lines 224-235 over delims[1..].
RECURSIVE DelimPasses(_, _, _, _)
DelimPasses(chunks, delims, d, max) ==
    IF d > Len(delims) THEN chunks
    ELSE DelimPasses(FlatMapBreak(chunks, 1, delims[d], max), delims, d + 1, max)

\* The Result of the chunker: Ok(chunks) or Err (bail! of line 240).
Ok(chunks) == [ok |-> TRUE, chunks |-> chunks]
Err == [ok |-> FALSE, chunks |-> <<>>]

\* Lines 220-235 of break_greedily_at_delims: the first delimiter on the
\* whole text, then every further delimiter on the chunks still too long.
AllPasses(t, max, delims) ==
    DelimPasses(break_greedily_at_delim(t, delims[1], max), delims, 2, max)

\* break_greedily_at_delims without the final size check of lines 238-242.
break_greedily_at_delims_unchecked(t, max, delims) ==
    Ok(AllPasses(t, max, delims))

break_greedily_at_delims(t, max, delims) ==
    LET chunks == AllPasses(t, max, delims)
    IN  IF \E k \in 1..Len(chunks) : Len(chunks[k]) > max
        THEN Err
        ELSE Ok(chunks)

break_english_text(t, max) == break_greedily_at_delims(t, max, EnglishDelims)

\* chunks.concat(): the slices joined in order.
RECURSIVE Concat(_)
Concat(ss) == IF ss = <<>> THEN <<>> ELSE Head(ss) \o Concat(Tail(ss))

\* chunks.iter().map(|c| c.len()).sum() of the test text_breaking.
RECURSIVE SumLen(_)
SumLen(ss) == IF ss = <<>> THEN 0 ELSE Len(Head(ss)) + SumLen(Tail(ss))

----------------------------------------------------------------------------
(* Articles, identifiers, paths and files: common/src/lib.rs,               *)
(* server/src/util.rs, server/src/add_article.rs lines 136-148.             *)

\* The submissions of a run: two requests to /api/add-article-by-text, which
\* the server handles concurrently, in any interleaving (one after the other
\* included).
Subs == {1, 2}

\* The articles a submission may carry: a short one (one chunk under
\* TtsCeiling) and one whose title needs sanitizing and whose serialized text
\* breaks into four chunks.
Articles ==
    { [title |-> <<"a">>, body |-> <<"a">>],
      [title |-> <<"b", ":">>, body |-> <<"a", ",", "a", "a">>] }

\* The title and the body joined with no separator: format!("{}{}", ..).
serialize_unseparated(article) == article.title \o article.body

\* ArticleTextSubmission::serialize: format!("{}. {}", title, body).
serialize(article) == article.title \o <<".", " ">> \o article.body

\* The characters sanitize_filename replaces under SANITIZATION_OPTIONS
\* (windows: true): the illegal and the Windows-reserved ones that can occur
\* in the model's titles.
IllegalChars == {"/", "?", "<", ">", "\\", ":", "*", "|", "\"", "\n"}

\* The title used as it is.
sanitize_none(title) == title

\* sanitize_with_options(title, SANITIZATION_OPTIONS): replacement "_".
sanitize(title) ==
    [i \in DOMAIN title |-> IF title[i] \in IllegalChars THEN "_" ELSE title[i]]

FILENAME_TITLE_MAXLEN == 20

\* A character is a string: a one-byte character stands for itself, and
\* these name characters of two, three and four bytes in UTF-8 (e with acute,
\* the right single quotation mark of the test's title, an emoji outside the
\* basic plane).
WideChars == {"U+00E9", "U+2019", "U+1F600"}

\* char::len_utf8.
len_utf8(c) ==
    CASE c = "U+00E9" -> 2
      [] c = "U+2019" -> 3
      [] c = "U+1F600" -> 4
      [] OTHER -> 1

\* char::len_utf16, in code units.
len_utf16(c) == IF c = "U+1F600" THEN 2 ELSE 1

\* truncate_to_bytes, lines 61-64.
char_bytelen(c, encoding) ==
    IF encoding = "Utf8" THEN len_utf8(c) ELSE 2 * len_utf16(c)

\* truncate_to_bytes, lines 57-70: chars().take_while(..) with the running
\* byte_count.
RECURSIVE TakeWhile(_, _, _, _)
TakeWhile(string, byte_count, max_len, encoding) ==
    IF string = <<>> THEN <<>>
    ELSE LET count == byte_count + char_bytelen(Head(string), encoding)
         IN  IF count <= max_len
             THEN <<Head(string)>> \o TakeWhile(Tail(string), count, max_len, encoding)
             ELSE <<>>

\* The first max_len characters taken, whatever their bytes.
truncate_to_chars(string, max_len, encoding) ==
    SubSeq(string, 1, IF Len(string) <= max_len THEN Len(string) ELSE max_len)

\* truncate_to_bytes(string, max_len, encoding); max_len < 4 panics (line 51)
\* and no caller passes it.
truncate_to_bytes(string, max_len, encoding) ==
    TakeWhile(string, 0, max_len, encoding)

\* str::len and the bytes of a str: the UTF-8 bytes of its characters, byte i
\* of character c being <<c, i>>.
RECURSIVE utf8(_)
utf8(string) ==
    IF string = <<>> THEN <<>>
    ELSE [i \in 1..len_utf8(Head(string)) |-> <<Head(string), i>>]
         \o utf8(Tail(string))

\* BigEndian::write_u64: the width bytes of n, the most significant first.
RECURSIVE BigEndian(_, _)
BigEndian(n, width) ==
    IF width = 0 THEN <<>>
    ELSE BigEndian(n \div 256, width - 1) \o <<n % 256>>

\* BigEndian::write_u64(&mut len_buf, n) into [0u8; 8], lines 79-80.
len_buf(n) == BigEndian(n, 8)

\* The title and the body hashed with no length before them.
hash_input_unprefixed(article) == utf8(article.title) \o utf8(article.body)

\* hash_article, lines 83-85: the bytes fed to the hash,
\* title_len || title || body.
hash_input(article) ==
    len_buf(Len(utf8(article.title))) \o utf8(article.title) \o utf8(article.body)

\* hash_article: Blake2s of hash_input, cut to 128 bits and zbase32-encoded.
\* The hash is taken to be collision-free, so it is modelled by its input.
hash_article(article) == hash_input(article)

\* derive_article_id: format!("{truncated_title}-{hash}.mp3"), as the stem
\* and the extension that follows the last dot.
derive_article_id(article) ==
    << <<truncate_to_bytes(sanitize(article.title), FILENAME_TITLE_MAXLEN, "Utf8"),
         hash_article(article)>>,
       "mp3" >>

\* Path::with_extension on a path whose last component is its extension;
\* ext is a sequence of extension components ("mp3.tmp" is <<"mp3", "tmp">>).
with_extension(path, ext) == SubSeq(path, 1, Len(path) - 1) \o ext

\* Path::extension: what follows the last dot.
extension(path) == path[Len(path)]

\* Writing to the final path at once, with no temp file.
tmp_savepath_is_savepath(id) == with_extension(id, <<"mp3">>)

\* add_article_by_text, line 139.
savepath(id) == with_extension(id, <<"mp3">>)

\* add_article_by_text, lines 146-148.
tmp_savepath(id) == with_extension(id, <<"mp3", "tmp">>)

\* Every path the model's submissions can touch in the audio directory.
Paths ==
    UNION {{savepath(derive_article_id(a)), tmp_savepath(derive_article_id(a))}
           : a \in Articles}

Absent == [absent |-> TRUE]

\* A file: the bytes it holds, the audio its writer set out to write, the
\* submission that created it (0: none, it was put there from outside), the
\* submission whose ID3 tags it carries (0: none), and what get_metadata
\* meets in it (form): "ok"; "unreadable", Tag::read_from_path fails;
\* "year_only_date", its recording time has a year but no month;
\* "non_unicode_name", its name is not valid unicode.  The files the
\* submissions write are "ok".
File(bytes, full, owner, tags) ==
    [absent |-> FALSE, bytes |-> bytes, full |-> full, owner |-> owner,
     tags |-> tags, form |-> "ok"]

\* The audio tts returns for an article: one frame per chunk of its text.
AudioOf(article) ==
    LET r == break_english_text(serialize(article), TtsCeiling)
    IN  [k \in 1..Len(r.chunks) |-> <<article.title, k>>]

NoArticle == [title |-> <<>>, body |-> <<>>]

\* A submission that has not arrived yet.  Besides where its handler stands
\* (pc), what it carries (article, audio) and how it failed (stage,
\* rm_failed), a submission records what it has done: whether it arrived
\* after an identical one had been answered Ok (resubmission), how many times
\* it called check_n (consults), the limiter's answer (limiter), the
\* characters the limiter charged it (charged), the quota its error message
\* states (stated_quota, 0 for none), whether its text went through
\* break_english_text (chunked) and the TTS requests it sent (calls); also
\* whether it arrived after an identical one had failed and cleaned up
\* (retry), how save_metadata ended (meta_saved: "none" | "ok" | "failed")
\* and the ID the endpoint answered Ok with (response, "none" before).
IdleSub ==
    [pc |-> "idle", article |-> NoArticle, calls |-> 0, audio |-> <<>>,
     stage |-> "none", rm_failed |-> FALSE,
     resubmission |-> FALSE, consults |-> 0, limiter |-> "none",
     charged |-> 0, stated_quota |-> 0, chunked |-> FALSE,
     retry |-> FALSE, meta_saved |-> "none", response |-> "none"]

\* add_article_by_text, lines 121-126: the byte length of the serialized
\* article, or 1 if that is 0, as the NonZeroU32 handed to check_n.
text_len(article) ==
    LET n == Len(serialize(article)) IN IF n = 0 THEN 1 ELSE n

\* RateLimiter::check_n(n) of a limiter that can admit avail more characters:
\* n characters are admitted, and consumed, only all at once.
check_n(avail, n) ==
    IF n <= avail THEN [ok |-> TRUE, left |-> avail - n]
    ELSE [ok |-> FALSE, left |-> avail]

\* Quota::per_minute(burst): the limiter regains one character per
\* replenish interval (a minute / burst), up to burst characters.
replenish(avail, cells, burst) ==
    IF avail + cells <= burst THEN avail + cells ELSE burst

NotCached == [cached |-> FALSE]

\* The articles of the frontend's model: the id of an article stands for its
\* QueueEntry (queue_view.rs, lines 60-61: an entry is named by its ArticleId).
ArticleIds == {"a", "b"}

\* Option<QueueEntry>::None.
NoEntry == "none"

\* The Queue, Player and Library as their create functions return them
\* (Queue::default(), PlayerState::default(), Library::default()), with the
\* futures create kicks off still pending and the one save timer it arms; the
\* Audio component has been sent nothing.
FrontendCreated ==
    /\ queue = [entries |-> <<>>, load |-> "pending", snapshot |-> <<>>]
    /\ player = [now_playing |-> NoEntry, timers |-> 1, tasks |-> {}]
    /\ library = [progress |-> [id \in ArticleIds |-> "none"], fetches |-> {}]
    /\ audio = <<>>

\* A browser that has never stored anything.
FrontendIdle ==
    /\ FrontendCreated
    /\ idb = [queue |-> <<>>, last_write |-> [written |-> FALSE]]

\* No request has arrived: no handler runs and the cache is empty and
\* unlocked (LibraryCache::default(), list_articles.rs line 33).
NoRequest ==
    /\ subs = [s \in Subs |-> IdleSub]
    /\ lpc = "idle"
    /\ visited = {}
    /\ catalog = <<>>
    /\ cache = [p \in Paths |-> NotCached]
    /\ poisoned = FALSE

\* No function of util.rs is being called on its own.
NoCall ==
    /\ input = [fn |-> "none"]
    /\ output = [done |-> FALSE]

\* No request has arrived and the audio directory is empty.
NoSubmission ==
    /\ NoRequest
    /\ FrontendIdle
    /\ files = [p \in Paths |-> Absent]
    /\ NoCall

\* add_article::setup, lines 50-54: the limiter is built from the quota and
\* can admit a full burst at once.
StoreIdle ==
    /\ NoSubmission
    /\ max_chars_per_min = MaxCharsPerMin
    /\ tokens = max_chars_per_min
    /\ now = 0
    /\ admitted = <<>>

----------------------------------------------------------------------------
(* SpecChunker: break_english_text applied to every text of at most MaxLen  *)
(* bytes under every ceiling of at most MaxChunkSize.                      *)

Texts == UNION {[1..n -> Chars] : n \in 0..MaxLen}

NoResult == [ok |-> FALSE, chunks |-> <<"none">>]

\* tts has not been called: no task, no request, no result.
NoTtsResult == [ok |-> FALSE, err |-> "pending", from |-> 0, audio |-> <<>>]

TtsIdle ==
    /\ tpc = "start"
    /\ tasks = <<>>
    /\ blobs = <<>>
    /\ completion = <<>>
    /\ net_calls = 0
    /\ tts_result = NoTtsResult

InitChunker ==
    /\ text \in Texts
    /\ max_chunk_size \in 1..MaxChunkSize
    /\ cpc = "start"
    /\ chunk_result = NoResult
    /\ TtsIdle
    /\ StoreIdle

BreakEnglishText ==
    /\ cpc = "start"
    /\ chunk_result' = break_english_text(text, max_chunk_size)
    /\ cpc' = "done"
    /\ UNCHANGED <<text, max_chunk_size>>
    /\ UNCHANGED <<ttsVars, storeVars>>

NextChunker == BreakEnglishText

SpecChunker == InitChunker /\ [][NextChunker]_vars

----------------------------------------------------------------------------
(* The dispatcher: tts, join_parallel and tts_single of server/src/tts.rs,  *)
(* lines 68-139.                                                           *)

\* The audio a TTS response may carry: the vendor is opaque, so any of these.
Blobs == {[i \in 1..n |-> n] : n \in 1..MaxBlobLen}

\* The texts SpecTts submits: one chunk; two chunks; four chunks that need
\* three of the delimiters; four chunks at newlines; unbreakable as a whole;
\* breakable at a newline but with an unbreakable span.
TtsTexts ==
    { <<"a", "a">>,
      <<"a", "a", "a", "\n", "a", "a">>,
      <<"a", "a", "a", "\n", "a", "a", ",", "a", "a", ".", "a", "a">>,
      <<"a", "a", "a", "a", "\n", "a", "\n", "a", "a", "\n", "a">>,
      <<"a", "a", "a", "a", "a">>,
      <<"a", "a", "a", "a", "a", "\n", "a">> }

InitTts ==
    /\ text \in TtsTexts
    /\ max_chunk_size = TtsCeiling
    /\ cpc = "start"
    /\ chunk_result = NoResult
    /\ TtsIdle
    /\ StoreIdle

\* tts, lines 116-132 and join_parallel line 101: the text is broken; on an
\* error tts returns it (the ? of line 119); otherwise one task per chunk is
\* spawned and tts awaits join_all.
TtsStart ==
    /\ tpc = "start"
    /\ LET r == break_english_text(text, max_chunk_size)
       IN  /\ chunk_result' = r
           /\ cpc' = "done"
           /\ IF r.ok
              THEN /\ tasks' = [k \in 1..Len(r.chunks) |-> "spawned"]
                   /\ blobs' = [k \in 1..Len(r.chunks) |-> <<>>]
                   /\ tpc' = "joining"
                   /\ UNCHANGED tts_result
              ELSE /\ tts_result' = [ok |-> FALSE, err |-> "unbreakable",
                                     from |-> 0, audio |-> <<>>]
                   /\ tpc' = "returned"
                   /\ UNCHANGED <<tasks, blobs>>
    /\ UNCHANGED <<text, max_chunk_size, completion, net_calls, storeVars>>

\* tts_single without the check of lines 73-75: every text is sent.
TtsSingleSendUnchecked(k) ==
    /\ tasks[k] = "spawned"
    /\ tasks' = [tasks EXCEPT ![k] = "inflight"]
    /\ net_calls' = net_calls + 1
    /\ UNCHANGED completion
    /\ UNCHANGED <<chunkerVars, tpc, blobs, tts_result, storeVars>>

\* tts_single, lines 71-84: the task of chunk k refuses a text over the
\* ceiling before any request, and otherwise sends the request.
TtsSingleSend(k) ==
    /\ tasks[k] = "spawned"
    /\ IF Len(chunk_result.chunks[k]) > max_chunk_size
       THEN /\ tasks' = [tasks EXCEPT ![k] = "err"]
            /\ completion' = Append(completion, k)
            /\ UNCHANGED net_calls
       ELSE /\ tasks' = [tasks EXCEPT ![k] = "inflight"]
            /\ net_calls' = net_calls + 1
            /\ UNCHANGED completion
    /\ UNCHANGED <<chunkerVars, tpc, blobs, tts_result, storeVars>>

\* tts_single, lines 85-93, success: the response decodes to an audio blob.
TtsSingleOk(k) ==
    /\ tasks[k] = "inflight"
    /\ \E b \in Blobs : blobs' = [blobs EXCEPT ![k] = b]
    /\ tasks' = [tasks EXCEPT ![k] = "ok"]
    /\ completion' = Append(completion, k)
    /\ UNCHANGED <<chunkerVars, tpc, net_calls, tts_result, storeVars>>

\* tts_single, lines 85-91, failure: the network, the status, the body, the
\* JSON or the base64 is bad.
TtsSingleErr(k) ==
    /\ tasks[k] = "inflight"
    /\ tasks' = [tasks EXCEPT ![k] = "err"]
    /\ completion' = Append(completion, k)
    /\ UNCHANGED <<chunkerVars, tpc, blobs, net_calls, tts_result, storeVars>>

TaskFinished(k) == tasks[k] \in {"ok", "err"}

\* What try_join_all would wait for: every task, or the first error.
JoinReadyFirstError ==
    \/ \A k \in DOMAIN tasks : TaskFinished(k)
    \/ \E k \in DOMAIN tasks : tasks[k] = "err"

\* join_all(tasks).await, lines 104-105: resolves when every task has ended.
JoinReady == \A k \in DOMAIN tasks : TaskFinished(k)

\* The blobs joined in the order in which the tasks finished.
RECURSIVE BlobsInCompletionOrder(_, _)
BlobsInCompletionOrder(bs, order) ==
    IF order = <<>> THEN <<>>
    ELSE bs[Head(order)] \o BlobsInCompletionOrder(bs, Tail(order))

CollectedInCompletionOrder == BlobsInCompletionOrder(blobs, completion)

\* join_parallel's Vec<T>, lines 104-108, concatenated by line 137: join_all
\* yields the outputs in the order of the futures it was given.
Collected == Concat(blobs)

\* The task that failed first in time.
FirstErrInCompletionOrder ==
    completion[CHOOSE i \in DOMAIN completion :
                   /\ tasks[completion[i]] = "err"
                   /\ \A j \in 1..(i - 1) : tasks[completion[j]] # "err"]

\* collect::<Result<Vec<Bytes>, Error>>() of line 136 over the Vec join_all
\* returned: the iteration stops at the first Err, in the order of the Vec,
\* which is that of the chunks.
FirstErr ==
    CHOOSE k \in DOMAIN tasks :
        /\ tasks[k] = "err"
        /\ \A j \in 1..(k - 1) : tasks[j] # "err"

\* tts, lines 136-138: the results are collected into a Result, which is the
\* first Err in chunk order if there is one, and the blobs are concatenated.
JoinParallelReturn ==
    /\ tpc = "joining"
    /\ JoinReady
    /\ LET failed == {k \in DOMAIN tasks : tasks[k] = "err"}
       IN  IF failed # {}
           THEN tts_result' =
                    [ok |-> FALSE, err |-> "call", from |-> FirstErr,
                     audio |-> <<>>]
           ELSE tts_result' =
                    [ok |-> TRUE, err |-> "none", from |-> 0, audio |-> Collected]
    /\ tpc' = "returned"
    /\ UNCHANGED <<chunkerVars, tasks, blobs, completion, net_calls, storeVars>>

NextTts ==
    \/ TtsStart
    \/ \E k \in DOMAIN tasks : TtsSingleSend(k)
    \/ \E k \in DOMAIN tasks : TtsSingleOk(k)
    \/ \E k \in DOMAIN tasks : TtsSingleErr(k)
    \/ JoinParallelReturn

SpecTts == InitTts /\ [][NextTts]_vars

\* SpecTts with the scheduling the code has: tts runs, every task that
\* join_parallel spawned (tokio::spawn, line 101) runs up to its request, and
\* tts resumes once join_all resolves.  Nothing in tts_single (no timeout on
\* the client of line 77 or on the request of lines 80-87) obliges a request
\* to be answered, so TtsSingleOk and TtsSingleErr carry no fairness.
\* The first condition is WF_vars(TtsStart) written out: TtsStart is enabled
\* exactly when tpc = "start".
SpecTtsLive ==
    /\ InitTts
    /\ [][NextTts]_vars
    /\ ([]<>(tpc # "start") \/ []<><<TtsStart>>_vars)
    /\ WF_vars(\E k \in DOMAIN tasks : TtsSingleSend(k))
    /\ WF_vars(JoinParallelReturn)

----------------------------------------------------------------------------
(* The submissions and the limiter: server/src/add_article.rs.             *)

Init ==
    /\ text = <<>>
    /\ max_chunk_size = TtsCeiling
    /\ cpc = "start"
    /\ chunk_result = NoResult
    /\ TtsIdle
    /\ StoreIdle

IdOf(s) == derive_article_id(subs[s].article)

\* The handler of s moves on to the statement pc.
Goto(s, pc) == [subs EXCEPT ![s].pc = pc]

\* The handler of s returns Err from the given stage.
Fail(s, stage) == [subs EXCEPT ![s].pc = "err", ![s].stage = stage]

\* A request arrives: add_article_by_text_endpoint is called with an article.
Submit(s) ==
    /\ subs[s].pc = "idle"
    /\ \E a \in Articles :
           subs' = [subs EXCEPT
                       ![s].pc = "check_n",
                       ![s].article = a,
                       ![s].resubmission =
                           \E t \in Subs \ {s} : /\ subs[t].pc = "ok"
                                                 /\ subs[t].article = a,
                       ![s].retry =
                           \E t \in Subs \ {s} : /\ subs[t].pc = "err"
                                                 /\ ~subs[t].rm_failed
                                                 /\ subs[t].article = a]
    /\ UNCHANGED <<files, tokens, lpc, visited, catalog, cache,
                 chunkerVars, ttsVars, frontendVars, clockVars, poisoned, pureVars>>

\* Quota::burst_size of Quota::per_minute(max_chars_per_min), line 132.
burst_size == max_chars_per_min

\* The check of line 129 with the ? of line 133 left out: a rejected
\* submission goes on.
CheckQuotaIgnored(s) ==
    /\ subs[s].pc = "check_n"
    /\ LET r == check_n(tokens, text_len(subs[s].article))
       IN  /\ tokens' = r.left
           /\ subs' = [subs EXCEPT
                          ![s].pc = "exists",
                          ![s].consults = @ + 1,
                          ![s].limiter = IF r.ok THEN "accepted" ELSE "rejected",
                          ![s].charged = IF r.ok THEN text_len(subs[s].article) ELSE 0]
    /\ UNCHANGED <<files, lpc, visited, catalog, cache,
                 chunkerVars, ttsVars, frontendVars, clockVars, poisoned, pureVars>>

\* The check of line 129 against a limiter of the request's own (a limiter
\* built per request, or cloned by value instead of shared through the Arc
\* of line 34): what other submissions consumed is not seen, what this one
\* consumes is lost.
CheckQuotaOwnLimiter(s) ==
    /\ subs[s].pc = "check_n"
    /\ LET r == check_n(max_chars_per_min, text_len(subs[s].article))
       IN  IF r.ok
           THEN subs' = [subs EXCEPT
                            ![s].pc = "exists", ![s].consults = @ + 1,
                            ![s].limiter = "accepted",
                            ![s].charged = text_len(subs[s].article)]
           ELSE subs' = [subs EXCEPT
                            ![s].pc = "err", ![s].stage = "quota",
                            ![s].consults = @ + 1, ![s].limiter = "rejected",
                            ![s].stated_quota = burst_size]
    /\ UNCHANGED <<files, tokens, lpc, visited, catalog, cache,
                 chunkerVars, ttsVars, frontendVars, clockVars, poisoned, pureVars>>

\* add_article_by_text, lines 121-134: the serialized text's byte length is
\* charged to the shared limiter in one call of check_n; if the limiter does
\* not admit it, the handler returns an Err whose message states the quota.
CheckQuota(s) ==
    /\ subs[s].pc = "check_n"
    /\ LET r == check_n(tokens, text_len(subs[s].article))
       IN  /\ tokens' = r.left
           /\ IF r.ok
              THEN subs' = [subs EXCEPT
                               ![s].pc = "exists", ![s].consults = @ + 1,
                               ![s].limiter = "accepted",
                               ![s].charged = text_len(subs[s].article)]
              ELSE subs' = [subs EXCEPT
                               ![s].pc = "err", ![s].stage = "quota",
                               ![s].consults = @ + 1, ![s].limiter = "rejected",
                               ![s].stated_quota = burst_size]
    /\ UNCHANGED <<files, lpc, visited, catalog, cache,
                 chunkerVars, ttsVars, frontendVars, clockVars, poisoned, pureVars>>

\* Time passes: the limiter replenishes, up to its burst size.  Time is
\* counted in steps that replenish as many characters as the shortest
\* article holds (every charge of the model is a multiple of it).
Replenish ==
    /\ tokens < max_chars_per_min
    /\ LET quantum == CHOOSE n \in {Len(serialize(a)) : a \in Articles} :
                          \A a \in Articles : n <= Len(serialize(a))
       IN  tokens' = replenish(tokens, quantum, max_chars_per_min)
    /\ UNCHANGED <<subs, files, lpc, visited, catalog, cache,
                 chunkerVars, ttsVars, frontendVars, clockVars, poisoned, pureVars>>

\* add_article_by_text, lines 136-142: fail if the article already exists.
CheckExists(s) ==
    /\ subs[s].pc = "exists"
    /\ IF ~files[savepath(IdOf(s))].absent
       THEN subs' = Fail(s, "exists")
       ELSE subs' = Goto(s, "open")
    /\ UNCHANGED <<files, tokens, lpc, visited, catalog, cache,
                 chunkerVars, ttsVars, frontendVars, clockVars, poisoned, pureVars>>

\* The temp file opened with create(true) instead of create_new(true): an
\* existing file is opened and overwritten.
OpenTempOverwrite(s) ==
    /\ subs[s].pc = "open"
    /\ files' = [files EXCEPT ![tmp_savepath(IdOf(s))] =
                     File(<<>>, AudioOf(subs[s].article), s, 0)]
    /\ subs' = Goto(s, "tts")
    /\ UNCHANGED <<tokens, lpc, visited, catalog, cache,
                 chunkerVars, ttsVars, frontendVars, clockVars, poisoned, pureVars>>

\* add_article_by_text, lines 146-154: the temp file is created with
\* create_new, which fails if the path exists.
OpenTempOk(s) ==
    /\ subs[s].pc = "open"
    /\ files[tmp_savepath(IdOf(s))].absent
    /\ files' = [files EXCEPT ![tmp_savepath(IdOf(s))] =
                     File(<<>>, AudioOf(subs[s].article), s, 0)]
    /\ subs' = Goto(s, "tts")
    /\ UNCHANGED <<tokens, lpc, visited, catalog, cache,
                 chunkerVars, ttsVars, frontendVars, clockVars, poisoned, pureVars>>

\* The failure of open cleaned up like that of tts_to_file: the temp path
\* is removed.
OpenTempErrRemove(s) ==
    /\ subs[s].pc = "open"
    /\ subs' = Fail(s, "open")
    /\ files' = [files EXCEPT ![tmp_savepath(IdOf(s))] = Absent]
    /\ UNCHANGED <<tokens, lpc, visited, catalog, cache,
                 chunkerVars, ttsVars, frontendVars, clockVars, poisoned, pureVars>>

\* add_article_by_text, line 154: open fails, because the path exists or for
\* any other I/O error; nothing is created.
OpenTempErr(s) ==
    /\ subs[s].pc = "open"
    /\ subs' = Fail(s, "open")
    /\ UNCHANGED <<files, tokens, lpc, visited, catalog, cache,
                 chunkerVars, ttsVars, frontendVars, clockVars, poisoned, pureVars>>

\* tts_to_file, lines 241-248, and tts up to the await of join_all: the API
\* key or the voice may fail, the text may not break (both before any
\* request); otherwise one request per chunk is sent.
TtsToFileDispatch(s) ==
    /\ subs[s].pc = "tts"
    /\ LET r == break_english_text(serialize(subs[s].article), TtsCeiling)
       IN  \E setup_ok \in BOOLEAN :
               IF setup_ok /\ r.ok
               THEN subs' = [subs EXCEPT ![s].pc = "join",
                                         ![s].chunked = TRUE,
                                         ![s].calls = Len(r.chunks)]
               ELSE subs' = [subs EXCEPT ![s].pc = "remove",
                                         ![s].chunked = setup_ok,
                                         ![s].stage = "tts"]
    /\ UNCHANGED <<files, tokens, lpc, visited, catalog, cache,
                 chunkerVars, ttsVars, frontendVars, clockVars, poisoned, pureVars>>

\* The results of the calls filtered for the successful ones instead of
\* collected into a Result: the audio of the chunks that came back is kept.
TtsToFileJoinKeepPartial(s) ==
    /\ subs[s].pc = "join"
    /\ \E all_ok \in BOOLEAN :
           IF all_ok
           THEN subs' = [subs EXCEPT ![s].pc = "write",
                                     ![s].audio = AudioOf(subs[s].article)]
           ELSE \E n \in 0..(Len(AudioOf(subs[s].article)) - 1) :
                    subs' = [subs EXCEPT
                                ![s].pc = IF n = 0 THEN "rename" ELSE "write",
                                ![s].stage = "tts",
                                ![s].audio = SubSeq(AudioOf(subs[s].article), 1, n)]
    /\ UNCHANGED <<files, tokens, lpc, visited, catalog, cache,
                 chunkerVars, ttsVars, frontendVars, clockVars, poisoned, pureVars>>

\* tts, lines 136-138, and tts_to_file, lines 248-250: join_all has resolved;
\* either every call succeeded and the audio is the concatenation, or some
\* call failed and tts_to_file returns Err.
TtsToFileJoin(s) ==
    /\ subs[s].pc = "join"
    /\ \E all_ok \in BOOLEAN :
           IF all_ok
           THEN subs' = [subs EXCEPT ![s].pc = "write",
                                     ![s].audio = AudioOf(subs[s].article)]
           ELSE subs' = [subs EXCEPT ![s].pc = "remove", ![s].stage = "tts"]
    /\ UNCHANGED <<files, tokens, lpc, visited, catalog, cache,
                 chunkerVars, ttsVars, frontendVars, clockVars, poisoned, pureVars>>

\* tts_to_file, line 253: write_all writes some more of the audio to the temp
\* file; when all of it is written, tts_to_file returns Ok.
WriteSome(s) ==
    /\ subs[s].pc = "write"
    /\ LET p == tmp_savepath(IdOf(s))
           written == Len(files[p].bytes)
       IN  \E n \in (written + 1)..Len(subs[s].audio) :
               /\ files' = [files EXCEPT ![p].bytes = SubSeq(subs[s].audio, 1, n)]
               /\ subs' = Goto(s, IF n = Len(subs[s].audio) THEN "rename" ELSE "write")
    /\ UNCHANGED <<tokens, lpc, visited, catalog, cache,
                 chunkerVars, ttsVars, frontendVars, clockVars, poisoned, pureVars>>

\* tts_to_file, lines 253-254: a write fails; tts_to_file returns Err.
WriteErr(s) ==
    /\ subs[s].pc = "write"
    /\ subs' = [subs EXCEPT ![s].pc = "remove", ![s].stage = "write"]
    /\ UNCHANGED <<files, tokens, lpc, visited, catalog, cache,
                 chunkerVars, ttsVars, frontendVars, clockVars, poisoned, pureVars>>

\* add_article_by_text, lines 157-165: on an error of tts_to_file the temp
\* file is removed; if the removal fails too, that is added to the error.
\* Either way add_article_by_text returns Err.
RemoveTemp(s) ==
    /\ subs[s].pc = "remove"
    /\ \E removed \in BOOLEAN :
           IF removed
           THEN /\ files' = [files EXCEPT ![tmp_savepath(IdOf(s))] = Absent]
                /\ subs' = Goto(s, "err")
           ELSE /\ subs' = [subs EXCEPT ![s].pc = "err", ![s].rm_failed = TRUE]
                /\ UNCHANGED files
    /\ UNCHANGED <<tokens, lpc, visited, catalog, cache,
                 chunkerVars, ttsVars, frontendVars, clockVars, poisoned, pureVars>>

\* add_article_by_text, lines 168-169, success: the temp file takes the final
\* name in one step, replacing whatever is there.
RenameOk(s) ==
    /\ subs[s].pc = "rename"
    /\ LET id == IdOf(s)
       IN  files' = [p \in Paths |->
                        IF p = savepath(id) THEN files[tmp_savepath(id)]
                        ELSE IF p = tmp_savepath(id) THEN Absent
                        ELSE files[p]]
    /\ subs' = Goto(s, "save_metadata")
    /\ UNCHANGED <<tokens, lpc, visited, catalog, cache,
                 chunkerVars, ttsVars, frontendVars, clockVars, poisoned, pureVars>>

\* add_article_by_text, line 169: rename fails; the error is returned.
RenameErr(s) ==
    /\ subs[s].pc = "rename"
    /\ subs' = Fail(s, "rename")
    /\ UNCHANGED <<files, tokens, lpc, visited, catalog, cache,
                 chunkerVars, ttsVars, frontendVars, clockVars, poisoned, pureVars>>

\* save_metadata's error returned to the client (a ? on line 84 instead of
\* the logging map_err).
SaveMetadataPropagate(s) ==
    /\ subs[s].pc = "save_metadata"
    /\ \E saved \in BOOLEAN :
           IF saved /\ ~files[savepath(IdOf(s))].absent
           THEN /\ files' = [files EXCEPT ![savepath(IdOf(s))].tags = s]
                /\ subs' = [subs EXCEPT ![s].pc = "ok",
                                        ![s].meta_saved = "ok",
                                        ![s].response = IdOf(s)]
           ELSE /\ UNCHANGED files
                /\ subs' = [subs EXCEPT ![s].pc = "err",
                                        ![s].stage = "save_metadata",
                                        ![s].meta_saved = "failed"]
    /\ UNCHANGED <<tokens, lpc, visited, catalog, cache,
                 chunkerVars, ttsVars, frontendVars, clockVars, poisoned, pureVars>>

\* add_article_by_text_endpoint, lines 83-87: save_metadata writes the ID3
\* tags into the final file; a failure is logged; either way the endpoint
\* answers Ok(meta.id).
SaveMetadata(s) ==
    /\ subs[s].pc = "save_metadata"
    /\ \E saved \in BOOLEAN :
           IF saved /\ ~files[savepath(IdOf(s))].absent
           THEN /\ files' = [files EXCEPT ![savepath(IdOf(s))].tags = s]
                /\ subs' = [subs EXCEPT ![s].pc = "ok",
                                        ![s].meta_saved = "ok",
                                        ![s].response = IdOf(s)]
           ELSE /\ UNCHANGED files
                /\ subs' = [subs EXCEPT ![s].pc = "ok",
                                        ![s].meta_saved = "failed",
                                        ![s].response = IdOf(s)]
    /\ UNCHANGED <<tokens, lpc, visited, catalog, cache,
                 chunkerVars, ttsVars, frontendVars, clockVars, poisoned, pureVars>>

----------------------------------------------------------------------------
(* The catalog listing: get_library_catalog of server/src/list_articles.rs, *)
(* lines 173-232, and get_metadata of server/src/util.rs, lines 154-208.    *)

\* Path::file_stem: the file name without its last extension.
file_stem(path) == SubSeq(path, 1, Len(path) - 1)

\* get_metadata, util.rs lines 154-208: an error for a name that is not
\* unicode (lines 167-170); otherwise the ID is the file stem and title, date
\* and source come from the ID3 tags if they can be read (tags is the
\* submission that saved them, 0 when the defaults of lines 173-179 are
\* used).  A recording time without a month makes lines 190-194 call
\* NaiveDate::from_ymd(year, 0, 0), which panics.
get_metadata(path) ==
    IF files[path].form = "non_unicode_name" THEN [outcome |-> "err"]
    ELSE IF files[path].form = "year_only_date" THEN [outcome |-> "panic"]
    ELSE [outcome |-> "ok",
          meta |-> [cached |-> TRUE, id |-> file_stem(path),
                    tags |-> IF files[path].form = "unreadable" THEN 0
                             ELSE files[path].tags]]

\* get_library_catalog, lines 178-184: read_dir opens the directory, or fails
\* and the listing returns an error.
ListStart ==
    /\ lpc \in {"idle", "panicked"}
    /\ \E opened \in BOOLEAN :
           IF opened
           THEN /\ lpc' = "listing"
                /\ visited' = {}
                /\ catalog' = <<>>
           ELSE UNCHANGED <<lpc, visited, catalog>>
    /\ UNCHANGED <<subs, files, tokens, cache,
                 chunkerVars, ttsVars, frontendVars, clockVars, poisoned, pureVars>>

\* get_library_catalog, lines 203-227, the metadata of one .mp3 entry: that
\* of the cache if the lock is taken and the path is cached (line 207), else
\* what get_metadata returns for the file (lines 210 and 224).
meta_of(path) ==
    IF ~poisoned /\ cache[path].cached
    THEN [outcome |-> "ok", meta |-> cache[path]]
    ELSE get_metadata(path)

\* get_library_catalog, lines 188-228, for one directory entry: an entry
\* whose extension is not mp3 is dropped; otherwise, if the lock of the cache
\* is taken (line 203), the metadata comes from the cache or, failing that,
\* from get_metadata, whose Ok is put into the cache and whose Err drops the
\* entry; if the lock is poisoned (lines 222-227) the metadata comes from
\* get_metadata and the cache is left alone.  A panic of get_metadata ends
\* the listing without a catalog, and poisons the lock it was called under.
\* The catalog entry also records what the file held when it was listed.
ListEntry(path) ==
    /\ lpc = "listing"
    /\ path \notin visited
    /\ ~files[path].absent
    /\ visited' = visited \cup {path}
    /\ IF extension(path) # "mp3"
       THEN UNCHANGED <<lpc, catalog, cache, poisoned>>
       ELSE LET r == meta_of(path)
            IN  IF r.outcome = "panic"
                THEN /\ lpc' = "panicked"
                     /\ catalog' = <<>>
                     /\ poisoned' = TRUE
                     /\ UNCHANGED cache
                ELSE IF r.outcome = "err"
                THEN UNCHANGED <<lpc, catalog, cache, poisoned>>
                ELSE /\ cache' = IF poisoned THEN cache
                                 ELSE [cache EXCEPT ![path] = r.meta]
                     /\ catalog' = Append(catalog,
                                       [path |-> path, meta |-> r.meta,
                                        bytes |-> files[path].bytes,
                                        full |-> files[path].full])
                     /\ UNCHANGED <<lpc, poisoned>>
    /\ UNCHANGED <<subs, files, tokens,
                 chunkerVars, ttsVars, frontendVars, clockVars, pureVars>>

\* get_library_catalog, lines 229-231: the directory is exhausted and the
\* catalog is returned.
ListEnd ==
    /\ lpc = "listing"
    /\ \A path \in Paths : ~files[path].absent => path \in visited
    /\ lpc' = "idle"
    /\ UNCHANGED <<subs, files, tokens, visited, catalog, cache,
                 chunkerVars, ttsVars, frontendVars, clockVars, poisoned, pureVars>>

Next ==
    \/ \E s \in Subs :
           \/ Submit(s)
           \/ CheckQuota(s)
           \/ CheckExists(s)
           \/ OpenTempOk(s)
           \/ OpenTempErr(s)
           \/ TtsToFileDispatch(s)
           \/ TtsToFileJoin(s)
           \/ WriteSome(s)
           \/ WriteErr(s)
           \/ RemoveTemp(s)
           \/ RenameOk(s)
           \/ RenameErr(s)
           \/ SaveMetadata(s)
    \/ Replenish
    \/ ListStart
    \/ \E path \in Paths : ListEntry(path)
    \/ ListEnd

Spec == Init /\ [][Next]_vars

----------------------------------------------------------------------------
(* SpecId: derive_article_id and hash_article of server/src/util.rs, lines  *)
(* 74-100, applied to every article of a bounded set.                      *)

\* Titles: letters, a path separator, a character illegal on Windows and a
\* control character.  Bodies: two letters.
TitleChars == {"a", "b", "/", ":", "\n"}

BodyChars == {"b", "c"}

IdArticles ==
    { [title |-> t, body |-> b] :
          t \in UNION {[1..n -> TitleChars] : n \in 0..MaxTitleLen},
          b \in UNION {[1..n -> BodyChars] : n \in 0..MaxBodyLen} }

\* Everything but the call is idle.
OnlyCall ==
    /\ text = <<>>
    /\ max_chunk_size = TtsCeiling
    /\ cpc = "start"
    /\ chunk_result = NoResult
    /\ TtsIdle
    /\ NoRequest
    /\ FrontendIdle
    /\ files = [p \in Paths |-> Absent]
    /\ max_chars_per_min = MaxCharsPerMin
    /\ tokens = max_chars_per_min
    /\ now = 0
    /\ admitted = <<>>

InitId ==
    /\ OnlyCall
    /\ \E a \in IdArticles : input = [fn |-> "derive_article_id", article |-> a]
    /\ output = [done |-> FALSE]

\* derive_article_id(&article), with the bytes hash_article fed to the hash.
DeriveArticleId ==
    /\ ~output.done
    /\ input.fn = "derive_article_id"
    /\ output' = [done |-> TRUE,
                  id |-> derive_article_id(input.article),
                  hashed |-> hash_input(input.article)]
    /\ UNCHANGED <<input, chunkerVars, ttsVars, frontendVars, subs, files, tokens, lpc,
                   visited, catalog, cache, clockVars, poisoned>>

NextId == DeriveArticleId

SpecId == InitId /\ [][NextId]_vars

----------------------------------------------------------------------------
(* SpecTruncate: truncate_to_bytes of server/src/util.rs, lines 48-71,      *)
(* applied to every string of a bounded set, under both encodings.         *)

TruncChars == {"a"} \cup WideChars

InitTruncate ==
    /\ OnlyCall
    /\ \E str \in UNION {[1..n -> TruncChars] : n \in 0..MaxStringLen} :
           \E max_len \in 4..MaxTruncLen :
               \E encoding \in {"Utf8", "Utf16"} :
                   input = [fn |-> "truncate_to_bytes", string |-> str,
                            max_len |-> max_len, encoding |-> encoding]
    /\ output = [done |-> FALSE]

TruncateToBytes ==
    /\ ~output.done
    /\ input.fn = "truncate_to_bytes"
    /\ output' = [done |-> TRUE,
                  string |-> truncate_to_bytes(input.string, input.max_len,
                                               input.encoding)]
    /\ UNCHANGED <<input, chunkerVars, ttsVars, frontendVars, subs, files, tokens, lpc,
                   visited, catalog, cache, clockVars, poisoned>>

NextTruncate == TruncateToBytes

SpecTruncate == InitTruncate /\ [][NextTruncate]_vars

----------------------------------------------------------------------------
(* SpecTtsSingle: tts_single of server/src/tts.rs, lines 70-94, called on   *)
(* its own with any request, whether or not a chunker would produce it.    *)

\* The texts of the requests: up to two bytes over the ceiling.
SingleTexts == UNION {[1..n -> {"a", "."}] : n \in 1..(TtsCeiling + 2)}

\* One call of tts_single is pending; its request is chunk 1.
InitTtsSingle ==
    /\ text = <<>>
    /\ max_chunk_size = TtsCeiling
    /\ cpc = "done"
    /\ \E t \in SingleTexts : chunk_result = Ok(<<t>>)
    /\ tpc = "joining"
    /\ tasks = <<"spawned">>
    /\ blobs = <<(<<>>)>>
    /\ completion = <<>>
    /\ net_calls = 0
    /\ tts_result = NoTtsResult
    /\ StoreIdle

NextTtsSingle ==
    \/ TtsSingleSend(1)
    \/ TtsSingleOk(1)
    \/ TtsSingleErr(1)

SpecTtsSingle == InitTtsSingle /\ [][NextTtsSingle]_vars

----------------------------------------------------------------------------
(* SpecSort: the sort of list_articles, server/src/list_articles.rs lines   *)
(* 46-49, applied to every catalog of a bounded set.                       *)

\* ArticleMetadata::datetime_added is an Option<u64>.
NoneTime == [some |-> FALSE]

Some(v) == [some |-> TRUE, v |-> v]

\* Ord of Option<u64>: None is less than every Some, and Some compare by
\* their values.
option_le(a, b) == IF a.some THEN b.some /\ a.v <= b.v ELSE TRUE

\* The key without Reverse: the oldest first.
key_le_unreversed(a, b) == option_le(a.datetime_added, b.datetime_added)

\* The key of line 49, Reverse(meta.datetime_added): Reverse(x) <= Reverse(y)
\* exactly when y <= x.
key_le(a, b) == option_le(b.datetime_added, a.datetime_added)

\* x put into an ordered v behind every element whose key is <= its own.
RECURSIVE InsertByKey(_, _)
InsertByKey(v, x) ==
    IF v = <<>> THEN <<x>>
    ELSE IF key_le(Head(v), x) THEN <<Head(v)>> \o InsertByKey(Tail(v), x)
    ELSE <<x>> \o v

\* slice::sort_by_key: a stable sort, so elements of equal keys keep the
\* order they had.
RECURSIVE sort_by_key(_)
sort_by_key(v) ==
    IF v = <<>> THEN <<>>
    ELSE InsertByKey(sort_by_key(SubSeq(v, 1, Len(v) - 1)), v[Len(v)])

\* The catalogs get_library_catalog may return: entry i is the i-th file of
\* the directory, with any timestamp or none.
Catalogs ==
    UNION { { [i \in 1..n |-> [id |-> i, datetime_added |-> d[i]]] :
                  d \in [1..n -> {NoneTime} \cup {Some(t) : t \in 1..MaxTime}] }
            : n \in 0..MaxCatalogLen }

InitSort ==
    /\ OnlyCall
    /\ \E c \in Catalogs : input = [fn |-> "list_articles", catalog |-> c]
    /\ output = [done |-> FALSE]

\* list_articles, lines 46-52: the catalog is sorted and returned.
ListArticlesSort ==
    /\ ~output.done
    /\ input.fn = "list_articles"
    /\ output' = [done |-> TRUE, catalog |-> sort_by_key(input.catalog)]
    /\ UNCHANGED <<input, chunkerVars, ttsVars, frontendVars, subs, files, tokens, lpc,
                   visited, catalog, cache, clockVars, poisoned>>

NextSort == ListArticlesSort

SpecSort == InitSort /\ [][NextSort]_vars

----------------------------------------------------------------------------
(* SpecListing: the catalog listing over an audio directory whose files are *)
(* put there, changed and removed from outside the server, as the note on  *)
(* LibraryCache (list_articles.rs lines 21-22) expects.                    *)

\* What get_metadata can meet in a file.
Forms == {"ok", "unreadable", "year_only_date", "non_unicode_name"}

\* The tags a file from outside carries: none, or those of an article.
OutsideTags == {0, 1}

\* The paths files are put at: both .mp3 paths and one other path.
ListingPaths ==
    {savepath(derive_article_id(a)) : a \in Articles}
        \cup {tmp_savepath(derive_article_id([title |-> <<"a">>, body |-> <<"a">>]))}

InitListing ==
    /\ text = <<>>
    /\ max_chunk_size = TtsCeiling
    /\ cpc = "start"
    /\ chunk_result = NoResult
    /\ TtsIdle
    /\ StoreIdle

\* A file appears in the directory.
PlaceFile(path, form, tags) ==
    /\ files[path].absent
    /\ form = "ok" \/ (tags = 0 /\ extension(path) = "mp3")
    /\ files' = [files EXCEPT ![path] =
                     [File(<<>>, <<>>, 0, tags) EXCEPT !.form = form]]
    /\ UNCHANGED <<subs, tokens, lpc, visited, catalog, cache,
                 chunkerVars, ttsVars, frontendVars, clockVars, poisoned, pureVars>>

\* A file is removed from the directory.
RemoveFile(path) ==
    /\ ~files[path].absent
    /\ files' = [files EXCEPT ![path] = Absent]
    /\ UNCHANGED <<subs, tokens, lpc, visited, catalog, cache,
                 chunkerVars, ttsVars, frontendVars, clockVars, poisoned, pureVars>>

\* The tags of a file change on disk.
RetagFile(path, tags) ==
    /\ ~files[path].absent
    /\ files[path].form = "ok"
    /\ files[path].tags # tags
    /\ files' = [files EXCEPT ![path].tags = tags]
    /\ UNCHANGED <<subs, tokens, lpc, visited, catalog, cache,
                 chunkerVars, ttsVars, frontendVars, clockVars, poisoned, pureVars>>

NextListing ==
    \/ \E path \in ListingPaths, form \in Forms, tags \in OutsideTags :
           PlaceFile(path, form, tags)
    \/ \E path \in ListingPaths : RemoveFile(path)
    \/ \E path \in ListingPaths, tags \in OutsideTags : RetagFile(path, tags)
    \/ ListStart
    \/ \E path \in Paths : ListEntry(path)
    \/ ListEnd

SpecListing == InitListing /\ [][NextListing]_vars

----------------------------------------------------------------------------
(* SpecDelim: break_greedily_at_delim of server/src/tts.rs, lines 165-207,  *)
(* applied with one delimiter to every text of a bounded set.              *)

\* The bytes of the texts: the delimiter, another delimiter and a letter.
DelimChars == {".", ",", "a"}

InitDelim ==
    /\ OnlyCall
    /\ \E t \in UNION {[1..n -> DelimChars] : n \in 0..MaxLen} :
           \E max \in 1..MaxChunkSize :
               input = [fn |-> "break_greedily_at_delim", text |-> t,
                        delim |-> ".", max_chunk_size |-> max]
    /\ output = [done |-> FALSE]

BreakGreedilyAtDelim ==
    /\ ~output.done
    /\ input.fn = "break_greedily_at_delim"
    /\ output' = [done |-> TRUE,
                  pieces |-> break_greedily_at_delim(input.text, input.delim,
                                                     input.max_chunk_size)]
    /\ UNCHANGED <<input, chunkerVars, ttsVars, frontendVars, subs, files, tokens, lpc,
                   visited, catalog, cache, clockVars, poisoned>>

NextDelim == BreakGreedilyAtDelim

SpecDelim == InitDelim /\ [][NextDelim]_vars

----------------------------------------------------------------------------
(* SpecLimiter: the limiter of add_article.rs alone, under a clock.  A      *)
(* limiter built by Quota::per_minute(max_chars_per_min) regains one        *)
(* character per replenish interval, and a minute is max_chars_per_min      *)
(* replenish intervals.  The charges it admits are logged with their time. *)

InitLimiter ==
    /\ text = <<>>
    /\ max_chunk_size = TtsCeiling
    /\ cpc = "start"
    /\ chunk_result = NoResult
    /\ TtsIdle
    /\ NoSubmission
    /\ max_chars_per_min \in 1..MaxQuota
    /\ tokens = max_chars_per_min
    /\ now = 0
    /\ admitted = <<>>

\* add_article_by_text, line 129, as the limiter sees it: check_n is called
\* at time now with a text length n; what it admits it consumes.
RateLimiterCheckN(n) ==
    /\ Len(admitted) < MaxAdmitted
    /\ LET r == check_n(tokens, n)
       IN  /\ tokens' = r.left
           /\ admitted' = IF r.ok THEN Append(admitted, [at |-> now, n |-> n])
                          ELSE admitted
    /\ UNCHANGED <<max_chars_per_min, now, subs, files, lpc, visited, catalog,
                   cache, chunkerVars, ttsVars, frontendVars, poisoned, pureVars>>

\* One replenish interval passes.
Tick ==
    /\ now < MaxTicks
    /\ now' = now + 1
    /\ tokens' = replenish(tokens, 1, max_chars_per_min)
    /\ UNCHANGED <<max_chars_per_min, admitted, subs, files, lpc, visited,
                   catalog, cache, chunkerVars, ttsVars, frontendVars, poisoned, pureVars>>

NextLimiter ==
    \/ \E n \in 1..(max_chars_per_min + 1) : RateLimiterCheckN(n)
    \/ Tick

SpecLimiter == InitLimiter /\ [][NextLimiter]_vars

----------------------------------------------------------------------------
(* SpecFrontend: the Queue, Library and Player components of the frontend   *)
(* and the IndexedDB they keep their state in.  A message a component sends *)
(* from inside an update is handled before the browser runs any other       *)
(* event, so an action is one event (a click, a timer, a future that        *)
(* finishes) together with the updates it sets off.  What a future awaits   *)
(* (IndexedDB, the network) finishes at any later time.                     *)

\* GlobalAudio::get_elapsed(), or the elapsed time of a saved ArticleState:
\* 0.0 or later.
Elapsed == {0, 1}

\* The queues an earlier session can have saved: every article at most once.
SavedQueues ==
    { q \in UNION {[1..n -> ArticleIds] : n \in 0..Cardinality(ArticleIds)} :
          \A i, j \in DOMAIN q : q[i] = q[j] => i = j }

\* The ids of a Vec<QueueEntry>.
Ids(entries) == { entries[i] : i \in DOMAIN entries }

\* Vec::remove(idx).
remove(entries, idx) ==
    SubSeq(entries, 1, idx - 1) \o SubSeq(entries, idx + 1, Len(entries))

\* Iterator::position(|x| x.id == article_id) from index i on: the first index
\* whose entry has the id, 0 for None.
RECURSIVE position_from(_, _, _)
position_from(entries, article_id, i) ==
    IF i > Len(entries) THEN 0
    ELSE IF entries[i] = article_id THEN i
    ELSE position_from(entries, article_id, i + 1)

\* The same search, from the back.
RECURSIVE rposition_from(_, _, _)
rposition_from(entries, article_id, i) ==
    IF i < 1 THEN 0
    ELSE IF entries[i] = article_id THEN i
    ELSE rposition_from(entries, article_id, i - 1)

rposition(entries, article_id) ==
    rposition_from(entries, article_id, Len(entries))

position(entries, article_id) == position_from(entries, article_id, 1)

\* QueueMsg::PlayTrackBefore: the entry PlayerMsg::Play is sent for, NoEntry
\* when none is sent (checked_sub(1), then get).
play_track_before(entries, article_id) ==
    LET now_playing_idx == position(entries, article_id)
    IN  IF now_playing_idx = 0 \/ now_playing_idx - 1 < 1 THEN NoEntry
        ELSE entries[now_playing_idx - 1]

\* QueueMsg::PlayTrackAfter: the entry PlayerMsg::Play is sent for, NoEntry
\* when none is sent (get(i + 1)).
play_track_after(entries, article_id) ==
    LET now_playing_idx == position(entries, article_id)
    IN  IF now_playing_idx = 0 \/ now_playing_idx + 1 > Len(entries) THEN NoEntry
        ELSE entries[now_playing_idx + 1]

\* The future PlayerMsg::Play spawns (fake_play, prepare_for_play,
\* AudioMsg::Play, SaveState).  stale records that the article was deleted
\* from the queue, as the one playing, while the future was under way; msg
\* becomes the AudioMsg when the future sends one.
PlayTask(id) == [msg |-> "task", id |-> id, stale |-> FALSE]

\* PlayerMsg::Play(queue_entry).
PlayerPlay(pl, queue_entry) ==
    [pl EXCEPT !.now_playing = queue_entry,
               !.tasks = @ \cup {PlayTask(queue_entry)}]

\* PlayerMsg::StopIfPlaying(id): what becomes of the Player.
StopIfPlaying(pl, id) ==
    IF pl.now_playing = id
    THEN [pl EXCEPT !.now_playing = NoEntry,
                    !.tasks = { [t EXCEPT !.stale = @ \/ t.id = id] : t \in @ }]
    ELSE pl

\* PlayerMsg::SaveState, the timers: the re-arming comes first, skipped save or not.
SaveStateTimersAfterSkip(timers, elapsed, periodic) ==
    IF periodic /\ elapsed # 0 THEN timers + 1 ELSE timers

SaveStateTimers(timers, elapsed, periodic) ==
    IF periodic THEN timers + 1 ELSE timers

\* PlayerMsg::SaveState, the storage: a periodic save at 0 seconds returns
\* before anything is written.
SaveStateIdb(db, elapsed, periodic) ==
    IF periodic /\ elapsed = 0 THEN db
    ELSE [db EXCEPT !.last_write = [written |-> TRUE, periodic |-> periodic,
                                    elapsed |-> elapsed]]

\* LibraryMsg::MarkAsQueued(ids).
MarkAsQueued(lib, ids) ==
    [lib EXCEPT !.progress =
        [id \in ArticleIds |-> IF id \in ids THEN "done" ELSE @[id]]]

\* LibraryMsg::MarkAsUnqueued(id).
MarkAsUnqueued(lib, id) == [lib EXCEPT !.progress[id] = "none"]

\* No request has reached the server.
ServerIdle ==
    /\ text = <<>>
    /\ max_chunk_size = TtsCeiling
    /\ cpc = "start"
    /\ chunk_result = NoResult
    /\ TtsIdle
    /\ NoRequest
    /\ files = [p \in Paths |-> Absent]
    /\ NoCall
    /\ max_chars_per_min = MaxCharsPerMin
    /\ tokens = max_chars_per_min
    /\ now = 0
    /\ admitted = <<>>

\* The page has just been loaded: the components are created, and IndexedDB
\* holds the queue an earlier session left.  The restoring of the player state
\* (PlayerMsg::SetState) is not part of this specification.
InitFrontend ==
    /\ ServerIdle
    /\ FrontendCreated
    /\ \E q \in SavedQueues : idb = [queue |-> q, last_write |-> [written |-> FALSE]]

\* Queue::load, under way: IndexedDB answers the read with the queue it holds.
QueueLoadRead ==
    /\ queue.load = "pending"
    /\ queue' = [queue EXCEPT !.load = "read", !.snapshot = idb.queue]
    /\ UNCHANGED <<player, library, audio, idb, serverVars>>

\* The future of Queue::create finishes: QueueMsg::SetQueue with what was
\* read (the queue is replaced, the Library told to mark its ids), or no
\* message when the load failed.
QueueLoadResolve(ok) ==
    /\ queue.load = "read"
    /\ IF ok
       THEN /\ queue' = [queue EXCEPT !.load = "done",
                                      !.entries = queue.snapshot]
            /\ library' = MarkAsQueued(library, Ids(queue.snapshot))
       ELSE /\ queue' = [queue EXCEPT !.load = "done"]
            /\ UNCHANGED library
    /\ UNCHANGED <<player, audio, idb, serverVars>>

\* LibraryMsg::FetchArticle(id), sent by the "add to queue" button, which is
\* shown while the article has no download progress: the fetch is started.
LibraryFetchArticle(id) ==
    /\ library.progress[id] = "none"
    /\ id \notin library.fetches
    /\ library' = [library EXCEPT !.progress[id] = "in_progress",
                                  !.fetches = @ \cup {id}]
    /\ UNCHANGED <<queue, player, audio, idb, serverVars>>

\* The fetch finishes, the article is saved, and LibraryMsg::PassArticleToQueue
\* arrives: QueueMsg::Add pushes the entry and saves the queue, the Library
\* marks the article Done.
LibraryPassArticleToQueue(id) ==
    /\ id \in library.fetches
    /\ library' = [library EXCEPT !.progress[id] = "done",
                                  !.fetches = @ \ {id}]
    /\ queue' = [queue EXCEPT !.entries = Append(@, id)]
    /\ idb' = [idb EXCEPT !.queue = Append(queue.entries, id)]
    /\ UNCHANGED <<player, audio, serverVars>>

\* QueueMsg::Delete(idx), sent by the remove button of a rendered entry: the
\* entry is removed, the Player stops if it is playing it (and then saves its
\* state ad hoc), the Library unmarks it and the queue is saved.
QueueDelete(idx, elapsed) ==
    /\ idx \in DOMAIN queue.entries
    /\ LET entry == queue.entries[idx]
           entries == remove(queue.entries, idx)
           playing == player.now_playing = entry
           saved == [idb EXCEPT !.queue = entries]
       IN  /\ queue' = [queue EXCEPT !.entries = entries]
           /\ player' =
                 [StopIfPlaying(player, entry) EXCEPT
                     !.timers = IF playing
                                THEN SaveStateTimers(@, elapsed, FALSE)
                                ELSE @]
           /\ audio' = IF playing
                       THEN <<[msg |-> "Stop", id |-> entry, stale |-> FALSE]>>
                       ELSE audio
           /\ library' = MarkAsUnqueued(library, entry)
           /\ idb' = IF playing
                     THEN SaveStateIdb(saved, elapsed, FALSE)
                     ELSE saved
    /\ UNCHANGED serverVars

\* The play button of a rendered entry: PlayerMsg::Play(entry).
QueuePlay(idx) ==
    /\ idx \in DOMAIN queue.entries
    /\ player' = PlayerPlay(player, queue.entries[idx])
    /\ UNCHANGED <<queue, library, audio, idb, serverVars>>

\* The future spawned by PlayerMsg::Play finishes: prepare_for_play sends
\* AudioMsg::Load when load_article succeeded (loaded), then AudioMsg::Play
\* and an ad-hoc SaveState are sent.  A message is logged with the article
\* its future was spawned for.
PlayTaskFinish(t, loaded, elapsed) ==
    /\ t \in player.tasks
    /\ audio' = (IF loaded THEN <<[t EXCEPT !.msg = "Load"]>> ELSE <<>>)
                   \o <<[t EXCEPT !.msg = "Play"]>>
    /\ player' = [player EXCEPT
                     !.tasks = @ \ {t},
                     !.timers = SaveStateTimers(@, elapsed, FALSE)]
    /\ idb' = SaveStateIdb(idb, elapsed, FALSE)
    /\ UNCHANGED <<queue, library, serverVars>>

\* PlayerMsg::AskForPrevTrack, from the MediaSession: the Queue is asked for
\* the track before the one playing, and answers with PlayerMsg::Play if
\* there is one.
AskForPrevTrack ==
    /\ LET n == IF player.now_playing = NoEntry THEN NoEntry
                ELSE play_track_before(queue.entries, player.now_playing)
       IN  player' = IF n = NoEntry THEN player ELSE PlayerPlay(player, n)
    /\ UNCHANGED <<queue, library, audio, idb, serverVars>>

\* PlayerMsg::AskForNextTrack: the same for the track after it.
AskForNextTrack ==
    /\ LET n == IF player.now_playing = NoEntry THEN NoEntry
                ELSE play_track_after(queue.entries, player.now_playing)
       IN  player' = IF n = NoEntry THEN player ELSE PlayerPlay(player, n)
    /\ UNCHANGED <<queue, library, audio, idb, serverVars>>

\* A save timer fires: trigger_save(true) sends the periodic SaveState with
\* the elapsed time of the audio, and the Player handles it.
TimerFire(elapsed) ==
    /\ player.timers > 0
    /\ player' = [player EXCEPT
                     !.timers = SaveStateTimers(@ - 1, elapsed, TRUE)]
    /\ idb' = SaveStateIdb(idb, elapsed, TRUE)
    /\ UNCHANGED <<queue, library, audio, serverVars>>

\* PlayerMsg::UpdatePlaybackSpeed, from the speed selector: an ad-hoc save.
UpdatePlaybackSpeed(elapsed) ==
    /\ player' = [player EXCEPT
                     !.timers = SaveStateTimers(@, elapsed, FALSE)]
    /\ idb' = SaveStateIdb(idb, elapsed, FALSE)
    /\ UNCHANGED <<queue, library, audio, serverVars>>

NextFrontend ==
    \/ QueueLoadRead
    \/ \E ok \in BOOLEAN : QueueLoadResolve(ok)
    \/ \E id \in ArticleIds : LibraryFetchArticle(id)
    \/ \E id \in ArticleIds : LibraryPassArticleToQueue(id)
    \/ \E idx \in DOMAIN queue.entries : \E elapsed \in Elapsed :
           QueueDelete(idx, elapsed)
    \/ \E idx \in DOMAIN queue.entries : QueuePlay(idx)
    \/ \E t \in player.tasks : \E loaded \in BOOLEAN : \E elapsed \in Elapsed :
           PlayTaskFinish(t, loaded, elapsed)
    \/ AskForPrevTrack
    \/ AskForNextTrack
    \/ \E elapsed \in Elapsed : TimerFire(elapsed)
    \/ \E elapsed \in Elapsed : UpdatePlaybackSpeed(elapsed)

SpecFrontend == InitFrontend /\ [][NextFrontend]_vars

----------------------------------------------------------------------------
(* Claims about the chunker, checked under SpecChunker. *)

ChunkerDone == cpc = "done"

\* C1: for every text and every max_chunk_size >= 4, break_english_text
\* returns an error or chunks that are each at most max_chunk_size bytes
\* long; it never returns Ok with a chunk over the ceiling.
C1_ChunkSizeBound ==
    (ChunkerDone /\ max_chunk_size >= 4 /\ chunk_result.ok)
        => \A k \in 1..Len(chunk_result.chunks) :
               Len(chunk_result.chunks[k]) <= max_chunk_size

\* A text longer than the ceiling that was broken into several chunks.
C1_Witness ==
    /\ ChunkerDone /\ max_chunk_size >= 4 /\ chunk_result.ok
    /\ Len(text) > max_chunk_size
    /\ Len(chunk_result.chunks) >= 2

C3_NoEmptyChunk ==
    (ChunkerDone /\ max_chunk_size >= 4 /\ chunk_result.ok /\ text # <<>>)
        => \A k \in 1..Len(chunk_result.chunks) : chunk_result.chunks[k] # <<>>

\* C4: a non-empty text shorter than max_chunk_size comes back as exactly
\* one chunk, equal to the text.
C4_SingleChunkPassthrough ==
    (ChunkerDone /\ text # <<>> /\ Len(text) < max_chunk_size)
        => chunk_result = Ok(<<text>>)

\* A short text that holds delimiters, the first of them at position 0.
C4_Witness ==
    /\ ChunkerDone /\ Len(text) >= 3 /\ Len(text) < max_chunk_size
    /\ text[1] = "\n" /\ text[3] = "."
    /\ chunk_result = Ok(<<text>>)

\* C5: chunking the empty text yields zero chunks (an empty sequence), not a
\* sequence that holds one empty chunk.
C5_EmptyTextNoChunks ==
    (ChunkerDone /\ max_chunk_size >= 4 /\ text = <<>>) => chunk_result = Ok(<<>>)

----------------------------------------------------------------------------
(* Claims about the dispatcher, checked under SpecTts. *)

\* Some chunk is still over the ceiling after every delimiter has been tried.
UnbreakableSpan ==
    LET chunks == AllPasses(text, max_chunk_size, EnglishDelims)
    IN  \E k \in 1..Len(chunks) : Len(chunks[k]) > max_chunk_size

\* C6: if a span of the text is still over the ceiling after all delimiters
\* have been tried, chunking is an error and tts returns that error: no task
\* is spawned, no TTS request is sent and no audio (of a truncated text or of
\* the other chunks) is produced.
C6_UnbreakableIsError ==
    (tpc # "start" /\ UnbreakableSpan)
        => /\ ~chunk_result.ok
           /\ tpc = "returned"
           /\ ~tts_result.ok /\ tts_result.err = "unbreakable"
           /\ tts_result.audio = <<>>
           /\ tasks = <<>>
           /\ net_calls = 0

\* tts has returned for a text that breaks at a newline into a span over the
\* ceiling and a span under it.
C6_Witness ==
    /\ tpc = "returned" /\ UnbreakableSpan
    /\ Len(AllPasses(text, max_chunk_size, EnglishDelims)) = 2
    /\ tts_result.err = "unbreakable" /\ net_calls = 0

RECURSIVE InSequenceOrder(_)
InSequenceOrder(n) ==
    IF n = 0 THEN <<>> ELSE InSequenceOrder(n - 1) \o blobs[n]

\* C8: when every chunk's call succeeds, the audio tts returns is the
\* per-chunk blobs concatenated in chunk order, whatever the order in which
\* the calls finished.
C8_AudioInChunkOrder ==
    (tpc = "returned" /\ tts_result.ok)
        => /\ \A k \in DOMAIN tasks : tasks[k] = "ok"
           /\ tts_result.audio = InSequenceOrder(Len(tasks))

\* Four calls finished in reverse chunk order with different blobs.
C8_Witness ==
    /\ tpc = "returned" /\ tts_result.ok
    /\ completion = <<4, 3, 2, 1>>
    /\ blobs[1] # blobs[2] /\ blobs[3] # blobs[4] /\ blobs[1] # blobs[4]

----------------------------------------------------------------------------
(* Claims about the storage path and the listing, checked under Spec. *)

\* The article whose final path is `path`.
ArticleAt(path) == CHOOSE a \in Articles : savepath(derive_article_id(a)) = path

\* C9: in every reachable state a file under the final name <id>.mp3 is
\* absent or holds the complete audio of its article, and a listing returns
\* only entries with the extension mp3 (never the temp file), each of which
\* held its complete audio (not zero bytes, not a part) when it was listed.
C9_AtomicVisibility ==
    /\ \A path \in Paths :
           (extension(path) = "mp3" /\ ~files[path].absent)
               => /\ files[path].bytes # <<>>
                  /\ files[path].bytes = AudioOf(ArticleAt(path))
    /\ \A i \in DOMAIN catalog :
           /\ extension(catalog[i].path) = "mp3"
           /\ catalog[i].bytes # <<>>
           /\ catalog[i].bytes = AudioOf(ArticleAt(catalog[i].path))

\* A listing that has passed over a partly written temp file, whose writer
\* is still writing, and has listed the finished file of the other article.
C9_Witness ==
    /\ lpc = "listing"
    /\ Len(catalog) = 1
    /\ \E s \in Subs :
           /\ subs[s].pc = "write"
           /\ tmp_savepath(IdOf(s)) \in visited
           /\ files[tmp_savepath(IdOf(s))].bytes # <<>>
           /\ files[tmp_savepath(IdOf(s))].bytes # subs[s].audio

\* C10: after a submission has failed at OpenTemp, at WriteBytes (a TTS
\* failure included) or at Rename, no temp file that it created is left on
\* disk (unless the file system refused the removal itself).
C10_NoTempAfterFailure ==
    \A s \in Subs :
        (/\ subs[s].pc = "err"
         /\ subs[s].stage \in {"open", "tts", "write", "rename"}
         /\ ~subs[s].rm_failed)
            => \/ files[tmp_savepath(IdOf(s))].absent
               \/ files[tmp_savepath(IdOf(s))].owner # s


----------------------------------------------------------------------------
(* Claims about duplicate and concurrent submissions, checked under Spec.  *)

SameArticle(s, t) ==
    /\ s # t
    /\ subs[s].pc # "idle"
    /\ subs[t].pc # "idle"
    /\ subs[s].article = subs[t].article

\* Every file the submission s created, under the temp or the final name.
FilesOf(s) == {p \in Paths : ~files[p].absent /\ files[p].owner = s}

\* C11: a submission of a (title, body) that an earlier submission had
\* stored, and been answered Ok for, before it arrived fails with the
\* already-exists error of line 141, sends no TTS request and creates no file.
C11_ResubmissionIsDuplicate ==
    \A s \in Subs :
        subs[s].resubmission =>
            /\ subs[s].pc \in {"check_n", "exists", "err"}
            /\ subs[s].pc = "err" => subs[s].stage = "exists"
            /\ subs[s].calls = 0
            /\ FilesOf(s) = {}

\* The states from which a submission's temp file is its own: from the
\* create_new of line 153 to the rename of line 168 or the removal of line
\* 159.
Holding == {"tts", "join", "write", "remove", "rename"}

Holds(t) == subs[t].pc \in Holding

\* C12: while a submission t holds the temp file of an ID, the file is t's
\* and no submission s of the identical article can create it (create_new
\* cannot succeed for s), so s is at none of the statements between
\* create_new and rename: it sends no TTS request, writes to no file and
\* renames nothing.  A submission that fails at create_new has sent no TTS
\* request.
C12_ExclusiveCreate ==
    /\ \A t \in Subs :
           Holds(t) =>
               /\ ~files[tmp_savepath(IdOf(t))].absent
               /\ files[tmp_savepath(IdOf(t))].owner = t
               /\ \A s \in Subs :
                      SameArticle(s, t) =>
                          /\ ~Holds(s)
                          /\ ~ENABLED OpenTempOk(s)
                          /\ subs[s].pc \in {"check_n", "exists", "open"} =>
                                 subs[s].calls = 0
    /\ \A s \in Subs :
           (subs[s].pc = "err" /\ subs[s].stage = "open") =>
               /\ subs[s].calls = 0
               /\ FilesOf(s) = {}

\* C12's case: s is about to create the temp file that t holds.
C12_Witness ==
    \E s, t \in Subs :
        /\ SameArticle(s, t)
        /\ Holds(t)
        /\ subs[t].pc = "write"
        /\ subs[s].pc = "open"

\* The submission's temp file has taken the final name.
Renamed(s) == subs[s].pc \in {"save_metadata", "ok"}

\* C13: of the submissions of one (title, body), at most one ever renames
\* its temp file to the final path, so an artifact at the final path is
\* never replaced.
C13_OneWriterPerId ==
    \A s, t \in Subs : SameArticle(s, t) => ~(Renamed(s) /\ Renamed(t))

\* C14: a submission rejected because its artifact already exists has not
\* consulted the limiter and has been charged nothing.
C14_ExistsCheckBeforeLimiter ==
    \A s \in Subs :
        (subs[s].pc = "err" /\ subs[s].stage = "exists") =>
            /\ subs[s].consults = 0
            /\ subs[s].charged = 0

\* C15: a submission the limiter rejected has returned an error that states
\* the configured quota, and its text was not chunked, it sent no TTS
\* request and created no file, under the temp or the final name.
C15_RejectedDoesNothing ==
    \A s \in Subs :
        subs[s].limiter = "rejected" =>
            /\ subs[s].pc = "err"
            /\ subs[s].stage = "quota"
            /\ subs[s].stated_quota = max_chars_per_min
            /\ ~subs[s].chunked
            /\ subs[s].calls = 0
            /\ subs[s].charged = 0
            /\ FilesOf(s) = {}

\* C15's case: the limiter has rejected a submission while another, which
\* it had admitted, is at work.
C15_Witness ==
    \E s, t \in Subs :
        /\ subs[s].limiter = "rejected"
        /\ subs[s].pc = "err"
        /\ subs[t].limiter = "accepted"
        /\ subs[t].calls > 0

\* C16, as stated: the characters charged to an admitted submission are the
\* byte length of the article's body.
C16_ChargedBodyLength ==
    \A s \in Subs :
        subs[s].limiter = "accepted" => subs[s].charged = Len(subs[s].article.body)

\* C16, amended: a submission consults the limiter exactly once, before its
\* text is chunked, and an admitted submission is charged the byte length of
\* the serialized article (the title, ". " and the body), however many chunks
\* the text breaks into.
C16_ChargedSerializedLength ==
    \A s \in Subs :
        /\ subs[s].consults = IF subs[s].pc \in {"idle", "check_n"} THEN 0 ELSE 1
        /\ subs[s].chunked => subs[s].limiter = "accepted"
        /\ subs[s].limiter = "accepted" =>
               subs[s].charged =
                   Len(subs[s].article.title) + 2 + Len(subs[s].article.body)
        /\ subs[s].limiter # "accepted" => subs[s].charged = 0

\* C16's case: two admitted submissions whose texts broke into different
\* numbers of chunks, each charged by its length.
C16_Witness ==
    \E s, t \in Subs :
        /\ subs[s].limiter = "accepted" /\ subs[s].calls = 1 /\ subs[s].charged = 4
        /\ subs[t].limiter = "accepted" /\ subs[t].calls > 1 /\ subs[t].charged = 8

\* C18: when two submissions are both about to consult the limiter and their
\* sizes together exceed what the limiter can admit, the step that admits one
\* consumes its size from the shared limiter, after which the limiter cannot
\* admit the other.
C18_SharedLimiterAtomic ==
    [][\A s, t \in Subs :
           (/\ s # t
            /\ subs[s].pc = "check_n"
            /\ subs[t].pc = "check_n"
            /\ text_len(subs[s].article) + text_len(subs[t].article) > tokens
            /\ subs'[s].limiter = "accepted")
               => /\ tokens' = tokens - text_len(subs[s].article)
                  /\ ~check_n(tokens', text_len(subs[t].article)).ok]_vars

\* C18's case: of two submissions that together exceed the quota, one was
\* admitted and the other rejected although it would have fit alone.
C18_Witness ==
    \E s, t \in Subs :
        /\ subs[s].limiter = "accepted"
        /\ subs[t].limiter = "rejected"
        /\ subs[s].charged + text_len(subs[t].article) > max_chars_per_min
        /\ text_len(subs[t].article) <= max_chars_per_min

\* C20: a submission whose synthesis failed returns an error; no audio of it
\* is kept, nothing was written to its temp file, and no file under the
\* final name is its.
C20_TtsFailureStoresNothing ==
    \A s \in Subs :
        subs[s].stage = "tts" =>
            /\ subs[s].pc \in {"remove", "err"}
            /\ subs[s].audio = <<>>
            /\ \A p \in FilesOf(s) : p = tmp_savepath(IdOf(s)) /\ files[p].bytes = <<>>
            /\ subs[s].pc = "err" /\ ~subs[s].rm_failed => FilesOf(s) = {}

\* C20's case: a submission that sent several TTS requests has returned the
\* error of a failed one.
C20_Witness ==
    \E s \in Subs :
        /\ subs[s].pc = "err"
        /\ subs[s].stage = "tts"
        /\ subs[s].calls > 1

----------------------------------------------------------------------------
(* Claims about the limiter's window (SpecLimiter) and about termination    *)
(* (SpecTtsLive).                                                           *)

\* The characters admitted at the times from..to.
RECURSIVE AdmittedIn(_, _, _)
AdmittedIn(log, from, to) ==
    IF log = <<>> THEN 0
    ELSE (IF Head(log).at >= from /\ Head(log).at <= to THEN Head(log).n ELSE 0)
         + AdmittedIn(Tail(log), from, to)

\* C17: in every window of one minute (max_chars_per_min replenish
\* intervals) the characters the limiter admitted sum to at most
\* max_chars_per_min.
C17_WindowWithinQuota ==
    \A w \in 0..now :
        AdmittedIn(admitted, w, w + max_chars_per_min - 1) <= max_chars_per_min

\* C19: every call of tts eventually returns, successfully or with an error.
C19_TtsEventuallyReturns == <>(tpc = "returned")

----------------------------------------------------------------------------
(* Claims about metadata embedding and about retries, checked under Spec.   *)

\* C21: when save_metadata has failed after the rename, the endpoint has
\* still answered Ok with the article's ID, and the artifact is in place
\* under the final name, whose extension is the one the listing accepts.
C21_MetadataFailureIsNotFatal ==
    \A s \in Subs :
        subs[s].meta_saved = "failed" =>
            /\ subs[s].pc = "ok"
            /\ subs[s].response = derive_article_id(subs[s].article)
            /\ ~files[savepath(IdOf(s))].absent
            /\ files[savepath(IdOf(s))].bytes = AudioOf(subs[s].article)
            /\ extension(savepath(IdOf(s))) = "mp3"

\* C21's case: a listing has returned the artifact of a submission whose
\* save_metadata failed.
C21_Witness ==
    \E s \in Subs :
        /\ subs[s].meta_saved = "failed"
        /\ files[savepath(IdOf(s))].tags = 0
        /\ lpc = "idle"
        /\ \E i \in DOMAIN catalog : catalog[i].path = savepath(IdOf(s))

\* C30: a submission that arrives after an identical one has failed (and
\* the failed one's own cleanup did not fail) finds neither the final file
\* nor the temp file of the failed attempt in its way: as long as it has not
\* created its temp file, the temp path is free.
C30_RetryNotBlocked ==
    \A s \in Subs :
        (subs[s].retry /\ subs[s].pc \in {"check_n", "exists", "open"}) =>
            /\ files[savepath(IdOf(s))].absent
            /\ files[tmp_savepath(IdOf(s))].absent

----------------------------------------------------------------------------
(* Claims about identifiers and truncation (SpecId, SpecTruncate).          *)

\* C23: the bytes fed to the hash determine the article: no other article,
\* differing in title or in body, gives the same bytes.
C23_HashInputInjective ==
    output.done =>
        \A b \in IdArticles :
            b # input.article => hash_input(b) # output.hashed

\* C23's case: title "ab" with body "c", whose title and body concatenate as
\* those of title "a" with body "bc" do.
C23_Witness ==
    /\ output.done
    /\ input.article = [title |-> <<"a", "b">>, body |-> <<"c">>]
    /\ utf8(input.article.title) \o utf8(input.article.body)
           = utf8(<<"a">>) \o utf8(<<"b", "c">>)

\* The title part of an ID (the part before "-{hash}.mp3").
TitleOf(id) == id[1][1]

\* C24: the title part of the derived ID holds no path separator, no control
\* character and no character illegal on Windows (the rest of the ID is "-",
\* the zbase32 text of the hash and ".mp3").
C24_IdHasNoIllegalChar ==
    output.done =>
        /\ \A i \in DOMAIN TitleOf(output.id) :
               TitleOf(output.id)[i] \notin IllegalChars
        /\ Len(utf8(TitleOf(output.id))) <= FILENAME_TITLE_MAXLEN

\* C24's case: a title of a path separator and a control character.
C24_Witness ==
    /\ output.done
    /\ input.article.title = <<"/", "\n">>
    /\ TitleOf(output.id) = <<"_", "_">>

\* The encoded length of a string.
RECURSIVE EncodedLen(_, _)
EncodedLen(string, encoding) ==
    IF string = <<>> THEN 0
    ELSE char_bytelen(Head(string), encoding) + EncodedLen(Tail(string), encoding)

\* C25: truncate_to_bytes with max_len >= 4 returns a prefix of whole
\* characters of the string that encodes to at most max_len bytes, and the
\* longest such: it is the whole string, or one more character exceeds
\* max_len.
C25_LongestPrefixWithinLimit ==
    (output.done /\ input.max_len >= 4) =>
        LET out == output.string
            n == Len(out)
        IN  /\ n <= Len(input.string)
            /\ out = SubSeq(input.string, 1, n)
            /\ EncodedLen(out, input.encoding) <= input.max_len
            /\ \/ n = Len(input.string)
               \/ EncodedLen(SubSeq(input.string, 1, n + 1), input.encoding)
                      > input.max_len

\* C25's case: a three-byte character that does not fit after two bytes is
\* left out whole, and the result is shorter than the limit.
C25_Witness ==
    /\ output.done
    /\ input.encoding = "Utf8"
    /\ input.max_len = 4
    /\ input.string = <<"a", "a", "U+2019">>
    /\ output.string = <<"a", "a">>

----------------------------------------------------------------------------
(* Claims about tts_single, checked under SpecTtsSingle. *)

\* C26: tts_single answers a request whose text is longer than the
\* per-request ceiling with an error and makes no network call for it,
\* whatever the text is: the call is pending or has failed, never in flight
\* or answered, and no request has been sent.
C26_OversizeRejectedBeforeNetwork ==
    Len(chunk_result.chunks[1]) > TtsCeiling
        => /\ tasks[1] \in {"spawned", "err"}
           /\ net_calls = 0

\* An oversize request has been rejected.
C26_Witness ==
    /\ Len(chunk_result.chunks[1]) > TtsCeiling
    /\ tasks[1] = "err"
    /\ net_calls = 0

----------------------------------------------------------------------------
(* Claims about the sort of list_articles, checked under SpecSort. *)

\* C27: the list-articles result holds the entries of the catalog, sorted by
\* datetime_added in descending order, and every entry without a timestamp
\* comes after all entries that have one.
C27_SortedNewestFirst ==
    output.done =>
        LET out == output.catalog
        IN  /\ Len(out) = Len(input.catalog)
            /\ {out[i] : i \in DOMAIN out}
                   = {input.catalog[i] : i \in DOMAIN input.catalog}
            /\ \A i, j \in DOMAIN out :
                   i < j =>
                       /\ (out[i].datetime_added.some /\ out[j].datetime_added.some)
                              => out[i].datetime_added.v >= out[j].datetime_added.v
                       /\ ~out[i].datetime_added.some
                              => ~out[j].datetime_added.some

\* A catalog that held an entry without a timestamp before two entries with
\* different timestamps, the older first, has been sorted.
C27_Witness ==
    /\ output.done
    /\ Len(input.catalog) >= 3
    /\ ~input.catalog[1].datetime_added.some
    /\ input.catalog[2].datetime_added = Some(1)
    /\ input.catalog[3].datetime_added = Some(2)

----------------------------------------------------------------------------
(* Claims about the listing of a directory with files from outside,        *)
(* checked under SpecListing.                                              *)

\* C28: a malformed or unreadable artifact is skipped by the catalog listing:
\* when the listing reads the metadata of an .mp3 file that is not well
\* formed, the listing goes on, the file adds no entry to the catalog, and
\* nothing is put into the cache.
C28_MalformedSkipped ==
    [][\A path \in Paths :
           ( /\ ListEntry(path)
             /\ extension(path) = "mp3"
             /\ files[path].form # "ok"
             /\ (poisoned \/ ~cache[path].cached) )
               => /\ lpc' = "listing"
                  /\ catalog' = catalog
                  /\ cache' = cache]_vars

\* C29: once the metadata of a path is in the cache, every later listing
\* returns that cached metadata for the path, whatever the tags on disk are:
\* each entry of a returned catalog is the cache's entry for its path.
C29_ListingReturnsCached ==
    lpc = "idle" =>
        \A i \in DOMAIN catalog :
            cache[catalog[i].path].cached
                => catalog[i].meta = cache[catalog[i].path]

----------------------------------------------------------------------------
(* Claims about break_greedily_at_delim, checked under SpecDelim. *)

\* The byte offset at which piece k starts.
RECURSIVE StartOf(_, _)
StartOf(pieces, k) ==
    IF k = 1 THEN 0 ELSE StartOf(pieces, k - 1) + Len(pieces[k - 1])

\* The first delimiter of t behind offset b, or the end of t.
NextDelimAfter(t, delim, b) ==
    LET later == {i \in b + 1 .. Len(t) - 1 : t[i + 1] = delim}
    IN  IF later = {} THEN Len(t)
        ELSE CHOOSE i \in later : \A j \in later : i <= j

\* C31: every break is at the last delimiter that keeps the piece at or under
\* max_chunk_size: a piece of at most max_chunk_size bytes that is followed
\* by another piece would be over max_chunk_size if it ran on to the next
\* delimiter, or to the end of the text.
C31_BreaksAreGreedy ==
    output.done =>
        LET pieces == output.pieces
        IN  \A k \in 1..(Len(pieces) - 1) :
                Len(pieces[k]) <= input.max_chunk_size
                    => NextDelimAfter(input.text, input.delim,
                                      StartOf(pieces, k + 1))
                           - StartOf(pieces, k) > input.max_chunk_size

\* A text broken into three pieces or more, the first of them, not empty,
\* made of two spans and within the bound.
C31_Witness ==
    /\ output.done
    /\ Len(output.pieces) >= 3
    /\ Len(output.pieces[1]) <= input.max_chunk_size
    /\ \E i \in 2..Len(output.pieces[1]) : output.pieces[1][i] = input.delim

----------------------------------------------------------------------------
(* Claims about the order of the delimiters, checked under SpecChunker. *)

\* The chunks after the passes of the first d delimiters.
AfterPass(d) == AllPasses(text, max_chunk_size, SubSeq(EnglishDelims, 1, d))

\* C32: a piece that is within max_chunk_size after the split at a
\* more-preferred delimiter is never split at a less-preferred one: it is,
\* whole and at its place, one of the chunks returned.
C32_WithinBoundNotSplitAgain ==
    (ChunkerDone /\ chunk_result.ok)
        => \A d \in 1..(Len(EnglishDelims) - 1) :
               LET pieces == AfterPass(d)
                   chunks == chunk_result.chunks
               IN  \A k \in 1..Len(pieces) :
                       Len(pieces[k]) <= max_chunk_size
                           => \E j \in 1..Len(chunks) :
                                  /\ chunks[j] = pieces[k]
                                  /\ StartOf(chunks, j) = StartOf(pieces, k)

\* The split at newlines left a piece within the bound that holds a period
\* and a piece over the bound, which was split at a period.
C32_Witness ==
    /\ ChunkerDone /\ chunk_result.ok
    /\ Len(AfterPass(1)) = 2
    /\ Len(AfterPass(1)[1]) <= max_chunk_size
    /\ \E i \in 2..Len(AfterPass(1)[1]) : AfterPass(1)[1][i] = "."
    /\ Len(AfterPass(1)[2]) > max_chunk_size
    /\ Len(chunk_result.chunks) = 3

----------------------------------------------------------------------------
(* Claims about the error tts returns, checked under SpecTts. *)

\* C33: when calls of several chunks fail, the error tts returns is that of
\* the failed chunk with the lowest sequence index, whatever the order in
\* which the calls ended.
C33_LowestFailedChunkReported ==
    (tpc = "returned" /\ ~tts_result.ok /\ tts_result.err = "call")
        => /\ tasks[tts_result.from] = "err"
           /\ \A k \in DOMAIN tasks :
                  tasks[k] = "err" => tts_result.from <= k

\* Chunk 3 failed first, chunk 2 after it, and tts has returned chunk 2's
\* error.
C33_Witness ==
    /\ tpc = "returned" /\ Len(tasks) = 4
    /\ completion[1] = 3 /\ completion[2] = 2
    /\ tasks[2] = "err" /\ tasks[3] = "err" /\ tasks[1] = "ok"
    /\ ~tts_result.ok /\ tts_result.from = 2

----------------------------------------------------------------------------
(* Further claims about the storage path, checked under Spec. *)

\* C34: a submission that finds the temp path of its ID taken fails at
\* create_new and leaves the file system as it is: the step it takes there
\* ends in an error and changes no file, and having failed there it takes no
\* further step.
C34_OpenTempFailureTouchesNothing ==
    [][\A s \in Subs :
           /\ ( /\ subs[s].pc = "open"
                /\ ~files[tmp_savepath(IdOf(s))].absent
                /\ subs'[s] # subs[s] )
                  => /\ subs'[s].pc = "err"
                     /\ subs'[s].stage = "open"
                     /\ files' = files
           /\ (subs[s].pc = "err" /\ subs[s].stage = "open")
                  => subs'[s] = subs[s]]_vars

\* s has failed at create_new while t, writing, holds the temp file, which
\* has the bytes t wrote.
C34_Witness ==
    \E s, t \in Subs :
        /\ s # t /\ SameArticle(s, t)
        /\ subs[s].pc = "err" /\ subs[s].stage = "open"
        /\ subs[t].pc = "write"
        /\ files[tmp_savepath(IdOf(t))].owner = t
        /\ files[tmp_savepath(IdOf(t))].bytes # <<>>

\* The submission has ended with its metadata embedded in its artifact.
Embedded(s) == subs[s].pc = "ok" /\ subs[s].meta_saved = "ok"

\* C35: after a submission has completed with its metadata embedded, every
\* later listing reports the embedded metadata for its artifact: whenever no
\* listing is running, the metadata a listing takes for the artifact is that
\* of the tags in the file, whatever listings ran before.
C35_ListingReportsEmbedded ==
    \A s \in Subs :
        (Embedded(s) /\ lpc = "idle")
            => LET path == savepath(IdOf(s))
               IN  /\ meta_of(path).outcome = "ok"
                   /\ meta_of(path).meta.tags = files[path].tags

\* C36: the ID a successful add-article call returns is the ID under which
\* the catalog lists the artifact, and the artifact is stored at the path
\* made of that ID and the extension mp3.
C36_ReturnedIdIsCatalogId ==
    \A s \in Subs :
        subs[s].pc = "ok" =>
            /\ savepath(IdOf(s)) = Append(subs[s].response, "mp3")
            /\ \A i \in DOMAIN catalog :
                   catalog[i].path = savepath(IdOf(s))
                       => catalog[i].meta.id = subs[s].response

----------------------------------------------------------------------------
(* Claims about the frontend, checked under SpecFrontend. *)

\* C37: an entry added with QueueMsg::Add leaves the queue only by
\* QueueMsg::Delete, whatever the order of the Adds and of the SetQueue that
\* restores the saved queue: every article the Library marks as Done is in
\* the queue.
C37_DoneArticlesAreQueued ==
    \A id \in ArticleIds :
        library.progress[id] = "done" => id \in Ids(queue.entries)

\* C38: once the entry playing has been deleted from the queue and
\* StopIfPlaying has been handled, no AudioMsg::Load or AudioMsg::Play for
\* the deleted article is sent, not even by a Play that was under way when
\* the entry was deleted.
C38_NoAudioForDeletedArticle ==
    \A i \in DOMAIN audio :
        audio[i].msg \in {"Load", "Play"} => ~audio[i].stale

\* C39: after Player::create exactly one save timer is pending: a periodic
\* SaveState re-arms it once, also when the save is skipped at 0 seconds,
\* an ad-hoc SaveState arms none, and a periodic SaveState at 0 seconds
\* writes nothing to storage.
C39_OneSaveTimerPending ==
    /\ player.timers = 1
    /\ idb.last_write # [written |-> TRUE, periodic |-> TRUE, elapsed |-> 0]

\* A periodic save has been written, and ad-hoc saves have been handled
\* before it or not at all; the timer is armed again.
C39_Witness ==
    /\ idb.last_write = [written |-> TRUE, periodic |-> TRUE, elapsed |-> 1]
    /\ player.timers = 1
    /\ audio # <<>>

\* The first entry of the queue with the id.
FirstWithId(entries, id) ==
    CHOOSE i \in DOMAIN entries :
        entries[i] = id /\ \A j \in 1..(i - 1) : entries[j] # id

\* PlayerMsg::Play is sent for the entry d places after the first entry with
\* the id of the article playing, and for none when there is no such entry;
\* the queue stays as it is.
PlaysNeighbour(d) ==
    LET id == player.now_playing
        entries == queue.entries
    IN  /\ queue' = queue
        /\ IF id \in Ids(entries) /\ FirstWithId(entries, id) + d \in DOMAIN entries
           THEN player' = PlayerPlay(player, entries[FirstWithId(entries, id) + d])
           ELSE player' = player

=============================================================================
